---- MODULE Spec2Model ----
(***************************************************************************)
(* Narrative zoning of shoreline transects                                 *)
(* (publication.crate/narrative_zoning.py).                                *)
(*                                                                         *)
(* Value conventions                                                       *)
(*   - a Python float that the rules compare is an integer in hundredths   *)
(*     (trend -0.8 is -80, r2_score 0.05 is 5, rmse 30 is 3000);           *)
(*   - an Optional value is a tuple: None is <<>>, a present x is <<x>>;   *)
(*   - a dict is a record (a missing key is a key outside DOMAIN); a dict  *)
(*     whose enumeration order matters (the rule set) is the sequence of   *)
(*     its items, each [name |-> key, def |-> value];                      *)
(*   - a transect id is the rank of the id string in the id ordering;      *)
(*   - a format string is the sequence of its parts, literal text          *)
(*     [text |-> "..."] and replacement fields [name |-> n, spec |-> s];    *)
(*     a number handed to a format string is the exact fraction num / den,  *)
(*     with is_int telling a Python int from a float; along_dist is in      *)
(*     whole metres;                                                        *)
(*   - an object handed to the JSON conversion is a record tagged with    *)
(*     its Python type in the field kind; a foreign object carries the      *)
(*     outcome of each of its methods that the conversion calls;            *)
(*   - a call's outcome is [exc |-> "None", val |-> v] when it returns v   *)
(*     and [exc |-> E, val |-> _] when it raises E.                        *)
(***************************************************************************)
EXTENDS Integers, Sequences, FiniteSets, TLC

VARIABLES
    features,          \* data['features'] of the transects file
    site_id,           \* the requested site
    transects,         \* the ordered transect list handed to the core
    zone_definitions,  \* the rule-set argument (None or a rule set)
    min_zone_length,   \* the min_zone_length argument
    condition,         \* the condition handed to evaluate_condition
    value,             \* the value handed to evaluate_condition
    cond_res,          \* outcome of evaluate_condition
    class_res,         \* outcomes of classify_transect_zone, per position
    zones_res,         \* outcomes of identify_narrative_zones, in call order
    zones_k1,          \* outcome of identify_narrative_zones with length 1
    dict_res,          \* outcome of create_transect_dict
    report,            \* outcome of analyze_site
    obj,               \* the object handed to make_json_serializable
    serialized         \* outcome of make_json_serializable

vars == <<features, site_id, transects, zone_definitions, min_zone_length,
          condition, value, cond_res, class_res, zones_res, zones_k1,
          dict_res, report, obj, serialized>>

(***************************************************************************)
(* Bounds of the model.                                                    *)
(***************************************************************************)
MaxLen == 5
MaxShort == 3
MaxRepeat == 2
MaxK == 2
MaxFeatures == 3
MaxItems == 2
ManyZones == 11

(***************************************************************************)
(* Python values.                                                          *)
(***************************************************************************)
None == <<>>
Some(x) == <<x>>
Get(d, key, default) == IF key \in DOMAIN d THEN d[key] ELSE default

Ok(v) == [exc |-> "None", val |-> v]
Raise(e, v) == [exc |-> e, val |-> v]
NotCalled == [exc |-> "NotCalled"]
Returned(r) == r.exc = "None"
Called(r) == r.exc # "NotCalled"

Text(s) == [text |-> s]
Field(name, spec) == [name |-> name, spec |-> spec]

NoDefinitions == [is_none |-> TRUE]
Definitions(items) == [is_none |-> FALSE, items |-> items]

(***************************************************************************)
(* get_default_zone_definitions: the nine built-in zone types, in the      *)
(* dict's enumeration order.                                               *)
(***************************************************************************)
get_default_zone_definitions ==
    << [name |-> "no_data", def |->
          [priority |-> 1,
           conditions |-> << [field |-> "trend", operator |-> "is_null", value |-> None] >>,
           description_template |->
               << Text("No data zone spanning "),
                  Field("length_km", ".1f"),
                  Text("km where insufficient observations prevent trend analysis.") >>]],
       [name |-> "rapid_erosion", def |->
          [priority |-> 2,
           conditions |-> << [field |-> "trend", operator |-> "<", value |-> -80] >>,
           description_template |->
               << Text("Critical erosion hotspot spanning "),
                  Field("length_km", ".1f"),
                  Text("km with average retreat of "),
                  Field("avg_trend_abs", ".1f"),
                  Text("m/year. This area requires immediate attention and monitoring.") >>]],
       [name |-> "moderate_erosion", def |->
          [priority |-> 3,
           conditions |-> << [field |-> "trend", operator |-> "<", value |-> -30] >>,
           description_template |->
               << Text("Erosion zone extending "),
                  Field("length_km", ".1f"),
                  Text("km showing consistent retreat averaging "),
                  Field("avg_trend_abs", ".1f"),
                  Text("m/year. Ongoing erosion processes are evident.") >>]],
       [name |-> "rapid_accretion", def |->
          [priority |-> 4,
           conditions |-> << [field |-> "trend", operator |-> ">", value |-> 80] >>,
           description_template |->
               << Text("Dynamic accretion zone over "),
                  Field("length_km", ".1f"),
                  Text("km with significant sand accumulation averaging "),
                  Field("avg_trend", ".1f"),
                  Text("m/year. This area shows strong sediment deposition.") >>]],
       [name |-> "moderate_accretion", def |->
          [priority |-> 5,
           conditions |-> << [field |-> "trend", operator |-> ">", value |-> 30] >>,
           description_template |->
               << Text("Stable accretion zone spanning "),
                  Field("length_km", ".1f"),
                  Text("km with gradual beach building averaging "),
                  Field("avg_trend", ".1f"),
                  Text("m/year. Positive sediment balance is maintained.") >>]],
       [name |-> "high_uncertainty", def |->
          [priority |-> 6,
           conditions |-> << [field |-> "r2_score", operator |-> "<", value |-> 5, allow_null |-> TRUE],
                             [field |-> "rmse", operator |-> ">", value |-> 3000, allow_null |-> TRUE] >>,
           logic |-> "OR",
           description_template |->
               << Text("Data-limited zone over "),
                  Field("length_km", ".1f"),
                  Text("km where shoreline trends are difficult to determine reliably. Additional monitoring may be needed.") >>]],
       [name |-> "steep_beach", def |->
          [priority |-> 7,
           conditions |-> << [field |-> "beach_slope", operator |-> ">", value |-> 8] >>,
           description_template |->
               << Text("High-energy beach zone over "),
                  Field("length_km", ".1f"),
                  Text("km characterized by steep beach profiles. This area may be vulnerable to storm impacts.") >>]],
       [name |-> "low_energy", def |->
          [priority |-> 8,
           conditions |-> << [field |-> "beach_slope", operator |-> "<", value |-> 4] >>,
           description_template |->
               << Text("Protected shoreline segment spanning "),
                  Field("length_km", ".1f"),
                  Text("km with gentle beach profiles indicating low wave energy conditions.") >>]],
       [name |-> "stable", def |->
          [priority |-> 9,
           conditions |-> << >>,
           description_template |->
               << Text("Stable shoreline segment extending "),
                  Field("length_km", ".1f"),
                  Text("km showing minimal change over time. This area exhibits natural equilibrium.") >>]] >>

(***************************************************************************)
(* evaluate_condition(value, condition)                                    *)
(***************************************************************************)
\* evaluate_condition that answers allow_null for every absent value, the
\* is_null operator included.
evaluate_condition_null_flag_only(v, cond) ==
    LET operator == cond["operator"]
        threshold == cond["value"]
        allow_null == Get(cond, "allow_null", FALSE)
    IN  IF v = None
        THEN Ok(allow_null)
        ELSE CASE operator = "<" -> Ok(v[1] < threshold)
               [] operator = "<=" -> Ok(v[1] <= threshold)
               [] operator = ">" -> Ok(v[1] > threshold)
               [] operator = ">=" -> Ok(v[1] >= threshold)
               [] operator = "==" -> Ok(v[1] = threshold)
               [] operator = "!=" -> Ok(v[1] # threshold)
               [] operator = "is_null" -> Ok(FALSE)
               [] OTHER -> Raise("ValueError", FALSE)

\* evaluate_condition that takes no notice of allow_null: an absent value
\* satisfies is_null only.
evaluate_condition_null_never(v, cond) ==
    LET operator == cond["operator"]
        threshold == cond["value"]
    IN  IF v = None
        THEN Ok(operator = "is_null")
        ELSE CASE operator = "<" -> Ok(v[1] < threshold)
               [] operator = "<=" -> Ok(v[1] <= threshold)
               [] operator = ">" -> Ok(v[1] > threshold)
               [] operator = ">=" -> Ok(v[1] >= threshold)
               [] operator = "==" -> Ok(v[1] = threshold)
               [] operator = "!=" -> Ok(v[1] # threshold)
               [] operator = "is_null" -> Ok(FALSE)
               [] OTHER -> Raise("ValueError", FALSE)

\* evaluate_condition whose <= is the strict comparison.
evaluate_condition_strict_only(v, cond) ==
    LET operator == cond["operator"]
        threshold == cond["value"]
        allow_null == Get(cond, "allow_null", FALSE)
    IN  IF v = None
        THEN IF operator = "is_null" THEN Ok(TRUE) ELSE Ok(allow_null)
        ELSE CASE operator = "<" -> Ok(v[1] < threshold)
               [] operator = "<=" -> Ok(v[1] < threshold)
               [] operator = ">" -> Ok(v[1] > threshold)
               [] operator = ">=" -> Ok(v[1] >= threshold)
               [] operator = "==" -> Ok(v[1] = threshold)
               [] operator = "!=" -> Ok(v[1] # threshold)
               [] operator = "is_null" -> Ok(FALSE)
               [] OTHER -> Raise("ValueError", FALSE)

evaluate_condition(v, cond) ==
    LET operator == cond["operator"]
        threshold == cond["value"]
        allow_null == Get(cond, "allow_null", FALSE)
    IN  IF v = None
        THEN IF operator = "is_null" THEN Ok(TRUE) ELSE Ok(allow_null)
        ELSE CASE operator = "<" -> Ok(v[1] < threshold)
               [] operator = "<=" -> Ok(v[1] <= threshold)
               [] operator = ">" -> Ok(v[1] > threshold)
               [] operator = ">=" -> Ok(v[1] >= threshold)
               [] operator = "==" -> Ok(v[1] = threshold)
               [] operator = "!=" -> Ok(v[1] # threshold)
               [] operator = "is_null" -> Ok(FALSE)
               [] OTHER -> Raise("ValueError", FALSE)

(***************************************************************************)
(* classify_transect_zone_custom(transect, zone_definitions)               *)
(***************************************************************************)
Priority(item) == Get(item.def, "priority", 999)

\* Position of the last item with the smallest sort key.
RECURSIVE LastMin(_, _, _)
LastMin(items, i, best) ==
    IF i > Len(items) THEN best
    ELSE LastMin(items, i + 1,
                 IF Priority(items[i]) <= Priority(items[best]) THEN i ELSE best)

\* Position of the first item with the smallest sort key.
RECURSIVE FirstMin(_, _, _)
FirstMin(items, i, best) ==
    IF i > Len(items) THEN best
    ELSE FirstMin(items, i + 1,
                  IF Priority(items[i]) < Priority(items[best]) THEN i ELSE best)

Remove(s, i) == SubSeq(s, 1, i - 1) \o SubSeq(s, i + 1, Len(s))

\* The items in enumeration order, not sorted.
unsorted(items) == items

\* sorted(zone_definitions.items(), key=priority): a stable ascending sort.
RECURSIVE sorted_by_priority(_)
sorted_by_priority(items) ==
    IF items = << >> THEN << >>
    ELSE LET m == FirstMin(items, 1, 1)
         IN  << items[m] >> \o sorted_by_priority(Remove(items, m))

\* all(evaluate_condition(props.get(cond['field']), cond) for cond in conditions)
RECURSIVE all_conditions(_, _, _)
all_conditions(props, conditions, i) ==
    IF i > Len(conditions) THEN Ok(TRUE)
    ELSE LET r == evaluate_condition(Get(props, conditions[i]["field"], None), conditions[i])
         IN  IF ~Returned(r) THEN r
             ELSE IF ~r.val THEN Ok(FALSE)
             ELSE all_conditions(props, conditions, i + 1)

\* any(evaluate_condition(props.get(cond['field']), cond) for cond in conditions)
RECURSIVE any_condition(_, _, _)
any_condition(props, conditions, i) ==
    IF i > Len(conditions) THEN Ok(FALSE)
    ELSE LET r == evaluate_condition(Get(props, conditions[i]["field"], None), conditions[i])
         IN  IF ~Returned(r) THEN r
             ELSE IF r.val THEN Ok(TRUE)
             ELSE any_condition(props, conditions, i + 1)

\* zone_matches whose AND asks for one condition only.
zone_matches_and_as_or(props, zone_def) ==
    LET conditions == Get(zone_def, "conditions", << >>)
        logic == Get(zone_def, "logic", "AND")
    IN  IF conditions = << >> THEN Ok(TRUE)
        ELSE IF logic = "AND" THEN any_condition(props, conditions, 1)
        ELSE IF logic = "OR" THEN any_condition(props, conditions, 1)
        ELSE Ok(FALSE)

\* zone_matches that takes every logic other than OR as AND.
zone_matches_unknown_as_and(props, zone_def) ==
    LET conditions == Get(zone_def, "conditions", << >>)
        logic == Get(zone_def, "logic", "AND")
    IN  IF conditions = << >> THEN Ok(TRUE)
        ELSE IF logic = "OR" THEN any_condition(props, conditions, 1)
        ELSE all_conditions(props, conditions, 1)

\* zone_matches for which a definition without conditions matches nothing.
zone_matches_never_empty(props, zone_def) ==
    LET conditions == Get(zone_def, "conditions", << >>)
        logic == Get(zone_def, "logic", "AND")
    IN  IF conditions = << >> THEN Ok(FALSE)
        ELSE IF logic = "AND" THEN all_conditions(props, conditions, 1)
        ELSE IF logic = "OR" THEN any_condition(props, conditions, 1)
        ELSE Ok(FALSE)

\* One pass of the loop body over zone_def: does the definition select the transect?
zone_matches(props, zone_def) ==
    LET conditions == Get(zone_def, "conditions", << >>)
        logic == Get(zone_def, "logic", "AND")
    IN  IF conditions = << >> THEN Ok(TRUE)
        ELSE IF logic = "AND" THEN all_conditions(props, conditions, 1)
        ELSE IF logic = "OR" THEN any_condition(props, conditions, 1)
        ELSE Ok(FALSE)

\* first_match that has no type name left when nothing matches.
RECURSIVE first_match_or_fail(_, _, _)
first_match_or_fail(props, sorted_zones, i) ==
    IF i > Len(sorted_zones) THEN Raise("KeyError", "")
    ELSE LET r == zone_matches(props, sorted_zones[i].def)
         IN  IF ~Returned(r) THEN Raise(r.exc, "")
             ELSE IF r.val THEN Ok(sorted_zones[i].name)
             ELSE first_match_or_fail(props, sorted_zones, i + 1)

RECURSIVE first_match(_, _, _)
first_match(props, sorted_zones, i) ==
    IF i > Len(sorted_zones) THEN Ok("stable")
    ELSE LET r == zone_matches(props, sorted_zones[i].def)
         IN  IF ~Returned(r) THEN Raise(r.exc, "")
             ELSE IF r.val THEN Ok(sorted_zones[i].name)
             ELSE first_match(props, sorted_zones, i + 1)

classify_transect_zone_custom(transect, items) ==
    first_match(transect.properties, sorted_by_priority(items), 1)

\* classify_transect_zone(transect, zone_definitions=None)
classify_transect_zone(transect, defs) ==
    classify_transect_zone_custom(transect,
        IF defs.is_none THEN get_default_zone_definitions ELSE defs.items)

(***************************************************************************)
(* create_zone_summary(zone_type, transects, start_index,                  *)
(*                     zone_definitions, zone_index)                       *)
(***************************************************************************)
RECURSIVE Sum(_)
Sum(xs) == IF xs = << >> THEN 0 ELSE xs[1] + Sum(Tail(xs))

RECURSIVE Max(_)
Max(xs) == IF Len(xs) = 1 THEN xs[1]
           ELSE LET m == Max(Tail(xs)) IN IF xs[1] > m THEN xs[1] ELSE m

RECURSIVE Min(_)
Min(xs) == IF Len(xs) = 1 THEN xs[1]
           ELSE LET m == Min(Tail(xs)) IN IF xs[1] < m THEN xs[1] ELSE m

\* abs that keeps the sign.
signed(x) == x

Abs(x) == IF x < 0 THEN -x ELSE x

\* sum(xs) / len(xs) if xs else None: the exact quotient, kept as a fraction.
Mean(xs) == IF xs = << >> THEN None ELSE Some([sum |-> Sum(xs), count |-> Len(xs)])

\* present_values that takes an absent value as 0.
RECURSIVE present_values_nulls_as_zero(_, _)
present_values_nulls_as_zero(ts, field) ==
    IF ts = << >> THEN << >>
    ELSE LET v == Get(ts[1].properties, field, None)
         IN  (IF v = None THEN << 0 >> ELSE << v[1] >>)
             \o present_values_nulls_as_zero(Tail(ts), field)

\* [t['properties'][field] for t in transects if t['properties'].get(field) is not None]
RECURSIVE present_values(_, _)
present_values(ts, field) ==
    IF ts = << >> THEN << >>
    ELSE LET v == Get(ts[1].properties, field, None)
         IN  (IF v = None THEN << >> ELSE << v[1] >>) \o present_values(Tail(ts), field)

\* f"{zone_index:02d}"
format_02d(n) == IF n < 10 THEN "0" \o ToString(n) ELSE ToString(n)

(***************************************************************************)
(* get_zone_narrative_description_custom(zone, zone_definitions)           *)
(***************************************************************************)
IntValue(n) == [num |-> n, den |-> 1, is_int |-> TRUE]
FloatValue(n, d) == [num |-> n, den |-> d, is_int |-> FALSE]

\* zone.get(key, 0) or 0, for a stored mean (a fraction of hundredths) and
\* for a stored extreme (hundredths): None and 0.0 both give the int 0.
mean_or_zero(zone, key) ==
    LET m == Get(zone, key, Some([sum |-> 0, count |-> 1]))
    IN  IF m = None \/ m[1].sum = 0 THEN IntValue(0)
        ELSE FloatValue(m[1].sum, m[1].count * 100)

value_or_zero(zone, key) ==
    LET m == Get(zone, key, Some(0))
    IN  IF m = None \/ m[1] = 0 THEN IntValue(0) ELSE FloatValue(m[1], 100)

abs_value(v) == [v EXCEPT !.num = Abs(v.num)]

RECURSIVE Pow10(_)
Pow10(n) == IF n = 0 THEN 1 ELSE 10 * Pow10(n - 1)

RECURSIVE pad_digits(_, _)
pad_digits(n, width) ==
    IF width = 0 THEN ""
    ELSE pad_digits(n \div 10, width - 1) \o ToString(n % 10)

\* a / den rounded to a whole number; an exact half goes to the even
\* neighbour, which is what the double does for the halves it holds exactly.
round_half_even(a, den) ==
    IF 2 * (a % den) > den THEN (a \div den) + 1
    ELSE IF 2 * (a % den) < den THEN a \div den
    ELSE IF (a \div den) % 2 = 0 THEN a \div den ELSE (a \div den) + 1

\* The sign, the whole part and the digits after the point of n / unit.
signed_decimal(negative, n, unit, digits) ==
    (IF negative THEN "-" ELSE "") \o ToString(n \div unit)
    \o (IF digits = 0 THEN "" ELSE "." \o pad_digits(n % unit, digits))

\* format(v, ".<digits>f"): the sign of the value, then the rounded magnitude.
format_fixed(v, digits) ==
    signed_decimal(v.num < 0, round_half_even(Abs(v.num) * Pow10(digits), v.den),
                   Pow10(digits), digits)

\* str(v) of a float that is a whole number of hundredths: the shortest
\* decimal, with at least one digit after the point.
float_str(v) ==
    IF ((Abs(v.num) * 100) \div v.den) % 10 = 0
    THEN format_fixed(v, 1)
    ELSE format_fixed(v, 2)

UnknownSpecs == {"q", ".1q"}

\* format(v, spec) for the format specifications of this model.
format_value(v, spec) ==
    CASE spec = ".0f" -> Ok(format_fixed(v, 0))
      [] spec = ".1f" -> Ok(format_fixed(v, 1))
      [] spec = ".2f" -> Ok(format_fixed(v, 2))
      [] spec = "d" ->
             IF v.is_int THEN Ok(ToString(v.num)) ELSE Raise("ValueError", << >>)
      [] spec = "" /\ v.is_int -> Ok(ToString(v.num))
      [] spec = "" /\ ~v.is_int /\ (v.num * 100) % v.den = 0 -> Ok(float_str(v))
      [] spec \in UnknownSpecs -> Raise("ValueError", << >>)

\* One part of a format string: literal text, or a replacement field. An
\* empty field name is a positional field, and there are no positional
\* arguments.
format_part(part, template_vars) ==
    IF "text" \in DOMAIN part THEN Ok(part.text)
    ELSE IF part.name = "" THEN Raise("IndexError", << >>)
    ELSE IF part.name \notin DOMAIN template_vars THEN Raise("KeyError", << >>)
    ELSE format_value(template_vars[part.name], part.spec)

\* The text so far and the text of the rest; the first error ends the call.
join_formatted(here, rest) ==
    IF ~Returned(here) THEN here
    ELSE IF ~Returned(rest) THEN rest
    ELSE Ok(here.val \o rest.val)

\* template.format(**template_vars): the parts in order.
RECURSIVE str_format(_, _, _)
str_format(template, template_vars, i) ==
    IF i > Len(template) THEN Ok("")
    ELSE join_formatted(format_part(template[i], template_vars),
                        str_format(template, template_vars, i + 1))

\* f"Unclassified zone spanning {{length_km:.1f}}km."
unclassified_template ==
    << Text("Unclassified zone spanning "), Field("length_km", ".1f"), Text("km.") >>

\* zone_definitions.get(zone_type, {})
RECURSIVE definition_of(_, _)
definition_of(items, zone_type) ==
    IF items = << >> THEN << >>
    ELSE IF items[1].name = zone_type THEN items[1].def
    ELSE definition_of(Tail(items), zone_type)

TemplateNames ==
    {"length_km", "mean_trend", "avg_trend", "avg_trend_abs", "transect_count",
     "avg_beach_slope", "avg_slope", "avg_r2", "max_trend", "min_trend",
     "avg_rmse", "avg_mae", "avg_cil", "avg_ciu", "avg_orientation"}

\* The value that template_vars holds under a name.
template_value(zone, name) ==
    CASE name = "length_km" -> FloatValue(zone.length_meters, 1000)
      [] name \in {"mean_trend", "avg_trend"} -> mean_or_zero(zone, "mean_trend")
      [] name = "avg_trend_abs" -> abs_value(mean_or_zero(zone, "mean_trend"))
      [] name = "transect_count" -> IntValue(Get(zone, "transect_count", 0))
      [] name \in {"avg_beach_slope", "avg_slope"} -> mean_or_zero(zone, "avg_beach_slope")
      [] name \in {"max_trend", "min_trend"} -> value_or_zero(zone, name)
      [] OTHER -> mean_or_zero(zone, name)

template_vars(zone) == [name \in TemplateNames |-> template_value(zone, name)]

\* f"Zone spanning {length_km:.1f}km with {zone.get('transect_count', 0)} transects."
fallback_description(zone) ==
    "Zone spanning " \o format_fixed(FloatValue(zone.length_meters, 1000), 1)
    \o "km with " \o ToString(Get(zone, "transect_count", 0)) \o " transects."

\* try: return template.format(...)  except (KeyError, ValueError): fallback
describe(formatted, zone) ==
    IF formatted.exc \in {"KeyError", "ValueError"} THEN Ok(fallback_description(zone))
    ELSE formatted

\* template_of that looks the type up in the built-in table, whatever the
\* rule set in use.
template_of_builtin_table(zone_type, items) ==
    Get(definition_of(get_default_zone_definitions, zone_type), "description_template",
        unclassified_template)

\* zone_def.get('description_template', ...) of the zone's type.
template_of(zone_type, items) ==
    Get(definition_of(items, zone_type), "description_template", unclassified_template)

get_zone_narrative_description_custom(zone, defs) ==
    describe(str_format(template_of(zone.zone_type,
                                    IF defs.is_none THEN get_default_zone_definitions
                                    ELSE defs.items),
                        template_vars(zone), 1),
             zone)

\* with_description that writes the 0 of the template variables back into
\* the averages that the summary lacks.
with_description_zero_filled(zone_summary, description) ==
    IF Returned(description)
    THEN Ok([key \in DOMAIN zone_summary |->
                IF key \in {"mean_trend", "avg_beach_slope", "avg_r2", "avg_rmse",
                            "avg_mae", "avg_cil", "avg_ciu", "avg_orientation"}
                   /\ zone_summary[key] = None
                THEN Some([sum |-> 0, count |-> 1])
                ELSE zone_summary[key]]
            @@ [narrative_description |-> description.val])
    ELSE Raise(description.exc, [zone_type |-> zone_summary.zone_type])

\* zone_summary['narrative_description'] = ...; return zone_summary
with_description(zone_summary, description) ==
    IF Returned(description)
    THEN Ok(zone_summary @@ [narrative_description |-> description.val])
    ELSE Raise(description.exc, [zone_type |-> zone_summary.zone_type])

describe_zone(zone_summary, defs) ==
    with_description(zone_summary, get_zone_narrative_description_custom(zone_summary, defs))

\* The fields of the summary ahead of the description.
zone_fields(zone_type, ts, start_index, zone_index, trends) ==
    [zone_type |-> zone_type,
     transect_count |-> Len(ts),
     start_index |-> start_index,
     end_index |-> start_index + Len(ts) - 1,
     start_distance |-> ts[1].properties["along_dist"],
     end_distance |-> ts[Len(ts)].properties["along_dist"],
     length_meters |-> Abs(ts[Len(ts)].properties["along_dist"]
                           - ts[1].properties["along_dist"]),
     start_transect_id |-> ts[1].properties["id"],
     end_transect_id |-> ts[Len(ts)].properties["id"],
     mean_trend |-> Mean(trends),
     avg_beach_slope |-> Mean(present_values(ts, "beach_slope")),
     avg_r2 |-> Mean(present_values(ts, "r2_score")),
     max_trend |-> IF trends = << >> THEN None ELSE Some(Max(trends)),
     min_trend |-> IF trends = << >> THEN None ELSE Some(Min(trends)),
     avg_rmse |-> Mean(present_values(ts, "rmse")),
     avg_mae |-> Mean(present_values(ts, "mae")),
     avg_cil |-> Mean(present_values(ts, "cil")),
     avg_ciu |-> Mean(present_values(ts, "ciu")),
     avg_orientation |-> Mean(present_values(ts, "orientation")),
     transect_ids |-> [i \in 1..Len(ts) |-> ts[i].properties["id"]],
     zone_name |-> Get(ts[1].properties, "site_id", "unknown_site") \o "_" \o zone_type
                   \o "_zone_" \o format_02d(zone_index)]

create_zone_summary(zone_type, ts, start_index, defs, zone_index) ==
    IF \E i \in 1..Len(ts) :
          \E f \in {"trend", "beach_slope", "r2_score"} : f \notin DOMAIN ts[i].properties
    THEN Raise("KeyError", [zone_type |-> zone_type])
    ELSE describe_zone(zone_fields(zone_type, ts, start_index, zone_index,
                                   present_values(ts, "trend")),
                       defs)

(***************************************************************************)
(* identify_narrative_zones(transects, min_zone_length, zone_definitions)  *)
(***************************************************************************)
\* scan_locals with a zone counter that lives on from the call before.
scan_locals_shared_counter ==
    [exc |-> "None",
     zones |-> << >>,
     current_zone_type |-> None,
     current_zone_start |-> 0,
     current_zone_transects |-> << >>,
     zone_counter |-> 1 + (IF zones_res # << >> /\ Returned(zones_res[Len(zones_res)])
                           THEN Len(zones_res[Len(zones_res)].val) ELSE 0)]

\* The locals of one call before its scan starts.
scan_locals ==
    [exc |-> "None",
     zones |-> << >>,
     current_zone_type |-> None,
     current_zone_start |-> 0,
     current_zone_transects |-> << >>,
     zone_counter |-> 1]

\* current_zone_summary that counts the start index from 1.
current_zone_summary_one_based(st, defs) ==
    create_zone_summary(st.current_zone_type[1], st.current_zone_transects,
                        st.current_zone_start + 1, defs, st.zone_counter)

\* create_zone_summary(current_zone_type, current_zone_transects,
\*                     current_zone_start, zone_definitions, zone_counter)
current_zone_summary(st, defs) ==
    create_zone_summary(st.current_zone_type[1], st.current_zone_transects,
                        st.current_zone_start, defs, st.zone_counter)

\* append_zone that leaves the zone counter where it is.
append_zone_keep_counter(st, z) ==
    IF Returned(z)
    THEN [st EXCEPT !.zones = Append(@, z.val)]
    ELSE [st EXCEPT !.exc = z.exc]

\* zones.append(zone_summary); zone_counter += 1
append_zone(st, z) ==
    IF Returned(z)
    THEN [st EXCEPT !.zones = Append(@, z.val), !.zone_counter = @ + 1]
    ELSE [st EXCEPT !.exc = z.exc]

\* close_zone with the length test left out.
close_zone_any_length(st, k, defs) ==
    IF st.current_zone_type # None
    THEN append_zone(st, current_zone_summary(st, defs))
    ELSE st

\* close_zone with the length comparison the wrong way round.
close_zone_reversed(st, k, defs) ==
    IF st.current_zone_type # None /\ Len(st.current_zone_transects) <= k
    THEN append_zone(st, current_zone_summary(st, defs))
    ELSE st

\* End the current zone if it meets the minimum length.
close_zone(st, k, defs) ==
    IF st.current_zone_type # None /\ Len(st.current_zone_transects) >= k
    THEN append_zone(st, current_zone_summary(st, defs))
    ELSE st

\* start_zone that keeps the start index of the zone before.
start_zone_stale(closed, zone_type, i, transect) ==
    IF closed.exc # "None" THEN closed
    ELSE [closed EXCEPT !.current_zone_type = Some(zone_type),
                        !.current_zone_transects = << transect >>]

\* Start new zone, once the zone before it is closed.
start_zone(closed, zone_type, i, transect) ==
    IF closed.exc # "None" THEN closed
    ELSE [closed EXCEPT !.current_zone_type = Some(zone_type),
                        !.current_zone_start = i,
                        !.current_zone_transects = << transect >>]

\* classified_step that starts a new zone at every transect.
classified_step_always_new(st, transect, c, i, k, defs) ==
    IF ~Returned(c) THEN [st EXCEPT !.exc = c.exc]
    ELSE start_zone(close_zone(st, k, defs), c.val, i, transect)

\* classified_step that does not move current_zone_start when a new zone starts.
classified_step_stale_start(st, transect, c, i, k, defs) ==
    IF ~Returned(c) THEN [st EXCEPT !.exc = c.exc]
    ELSE IF Some(c.val) # st.current_zone_type
    THEN start_zone_stale(close_zone(st, k, defs), c.val, i, transect)
    ELSE [st EXCEPT !.current_zone_transects = Append(@, transect)]

\* The loop body after zone_type = classify_transect_zone(...), whose
\* outcome is c.
classified_step(st, transect, c, i, k, defs) ==
    IF ~Returned(c) THEN [st EXCEPT !.exc = c.exc]
    ELSE IF Some(c.val) # st.current_zone_type
    THEN start_zone(close_zone(st, k, defs), c.val, i, transect)
    ELSE [st EXCEPT !.current_zone_transects = Append(@, transect)]

\* The body of "for i, transect in enumerate(transects)", i counted from 0.
scan_step(st, ts, i, k, defs) ==
    classified_step(st, ts[i + 1], classify_transect_zone(ts[i + 1], defs), i, k, defs)

RECURSIVE scan(_, _, _, _, _)
scan(st, ts, i, k, defs) ==
    IF i >= Len(ts) \/ st.exc # "None" THEN st
    ELSE scan(scan_step(st, ts, i, k, defs), ts, i + 1, k, defs)

\* "Handle the last zone", after the loop.
close_last_zone(scanned, k, defs) ==
    IF scanned.exc # "None" THEN scanned ELSE close_zone(scanned, k, defs)

\* return zones
return_zones(st) ==
    IF st.exc # "None" THEN Raise(st.exc, << >>) ELSE Ok(st.zones)

\* identify_narrative_zones without the close of the last zone after the scan.
identify_narrative_zones_no_final(ts, k, defs) ==
    IF ts = << >> THEN Ok(<< >>)
    ELSE return_zones(scan(scan_locals, ts, 0, k, defs))

identify_narrative_zones(ts, k, defs) ==
    IF ts = << >> THEN Ok(<< >>)
    ELSE return_zones(close_last_zone(scan(scan_locals, ts, 0, k, defs), k, defs))

(***************************************************************************)
(* create_transect_dict(transects, zone_definitions): the dict as the set  *)
(* of its keys and the entry stored under each.                            *)
(***************************************************************************)
\* transect_dict[transect_id] = {properties, geometry, zone_classification},
\* c being the outcome of the transect's classification.
put_transect(d, transect, c) ==
    IF ~Returned(c) THEN Raise(c.exc, d)
    ELSE Ok([key \in DOMAIN d \cup {transect.properties["id"]} |->
                IF key = transect.properties["id"]
                THEN [properties |-> transect.properties,
                      geometry |-> transect.geometry,
                      zone_classification |-> c.val]
                ELSE d[key]])

\* The loop over the transects from position i on, filled being the outcome
\* so far.
RECURSIVE fill_transect_dict(_, _, _, _)
fill_transect_dict(filled, ts, i, defs) ==
    IF i > Len(ts) \/ ~Returned(filled) THEN filled
    ELSE fill_transect_dict(
             put_transect(filled.val, ts[i], classify_transect_zone(ts[i], defs)),
             ts, i + 1, defs)

\* create_transect_dict that starts after the first transect.
create_transect_dict_skip_first(ts, defs) == fill_transect_dict(Ok(<< >>), ts, 2, defs)

create_transect_dict(ts, defs) == fill_transect_dict(Ok(<< >>), ts, 1, defs)

(***************************************************************************)
(* load_transects_for_site(site_id, transects_file): the features of the   *)
(* file's collection that belong to the site, sorted by id.                *)
(***************************************************************************)
RECURSIVE features_of_site(_, _)
features_of_site(site, fs) ==
    IF fs = << >> THEN << >>
    ELSE (IF fs[1].properties["site_id"] = site THEN << fs[1] >> ELSE << >>)
         \o features_of_site(site, Tail(fs))

\* Position of the first feature with the smallest id.
RECURSIVE FirstMinId(_, _, _)
FirstMinId(fs, i, best) ==
    IF i > Len(fs) THEN best
    ELSE FirstMinId(fs, i + 1,
                    IF fs[i].properties["id"] < fs[best].properties["id"] THEN i ELSE best)

\* site_transects.sort(key=lambda x: x['properties']['id'])
RECURSIVE sort_by_id(_)
sort_by_id(fs) ==
    IF fs = << >> THEN << >>
    ELSE LET m == FirstMinId(fs, 1, 1)
         IN  << fs[m] >> \o sort_by_id(Remove(fs, m))

\* load_transects_for_site without the sort.
load_transects_for_site_unsorted(site, fs) ==
    IF \E i \in 1..Len(fs) : {"site_id", "id"} \ DOMAIN fs[i].properties # {}
    THEN Raise("SystemExit", << >>)
    ELSE Ok(features_of_site(site, fs))

load_transects_for_site(site, fs) ==
    IF \E i \in 1..Len(fs) : {"site_id", "id"} \ DOMAIN fs[i].properties # {}
    THEN Raise("SystemExit", << >>)
    ELSE Ok(sort_by_id(features_of_site(site, fs)))

(***************************************************************************)
(* make_json_serializable(obj)                                             *)
(***************************************************************************)
PyNone == [kind |-> "NoneType"]
PyInt(n) == [kind |-> "int", int |-> n]
PyStr(text) == [kind |-> "str", text |-> text]

\* A float: finite (val in hundredths), nan, or an infinity (val its sign);
\* 1e308 is too large for hundredths and has a class of its own.
Finite(x) == [kind |-> "float", class |-> "finite", val |-> x]
NaN == [kind |-> "float", class |-> "nan", val |-> 0]
Inf(sign) == [kind |-> "float", class |-> "inf", val |-> sign]
Float1e308(sign) == [kind |-> "float", class |-> "1e308", val |-> sign]

\* A dict is the sequence of its items, each [key |-> k, value |-> v].
PyDict(items) == [kind |-> "dict", items |-> items]
PyList(items) == [kind |-> "list", items |-> items]
PyTuple(items) == [kind |-> "tuple", items |-> items]

\* A dict or list of this model that holds nothing but None, int, str, bool,
\* finite floats, dicts and lists, kept as the record or sequence it is.
Plain(v) == [kind |-> "plain", tree |-> v]

\* Foreign objects: one with __geo_interface__, one with tolist, one with
\* to_dict, and any other object; each field is the outcome of the call.
Geometry(geo_interface, str) ==
    [kind |-> "geometry", geo_interface |-> geo_interface, str |-> str]
ArrayLike(tolist) == [kind |-> "array", tolist |-> tolist]
SeriesLike(to_dict) == [kind |-> "series", to_dict |-> to_dict]
OtherObject(str) == [kind |-> "object", str |-> str]

\* d[key] of a dict: the value of the item under the key, None without it.
RECURSIVE item_of(_, _)
item_of(items, key) ==
    IF items = << >> THEN None
    ELSE IF items[1].key = key THEN Some(items[1].value)
    ELSE item_of(Tail(items), key)

\* str(obj): the text, or the error of the object's __str__.
str_of(outcome) == IF Returned(outcome) THEN Ok(PyStr(outcome.val)) ELSE outcome

\* {'type': ..., 'coordinates': geo['coordinates']}: the coordinates are
\* handed on as they are.
type_and_coordinates(type, coordinates, str) ==
    IF coordinates = None THEN str_of(str)
    ELSE Ok(PyDict(<< [key |-> "type", value |-> type],
                      [key |-> "coordinates", value |-> coordinates[1]] >>))

\* The branch of an object with __geo_interface__, type being geo['type'];
\* every exception of the try block ends in str(obj).
geo_branch(geo, type, str) ==
    IF type = None THEN str_of(str)
    ELSE IF type[1] \in {PyStr("LineString"), PyStr("Point")}
    THEN type_and_coordinates(type[1], item_of(geo.items, "coordinates"), str)
    ELSE Ok(geo)

\* hasattr(obj, '__geo_interface__') evaluates the property ahead of the try
\* block: an error of the property itself goes to the caller.
simplified_geometry(geo_interface, str) ==
    IF ~Returned(geo_interface) THEN geo_interface
    ELSE geo_branch(geo_interface.val, item_of(geo_interface.val.items, "type"), str)

\* The float branch: nan to None, an infinity to +/-1e308.
finite_float(x) ==
    IF x.class = "nan" THEN PyNone
    ELSE IF x.class = "inf" THEN Float1e308(x.val)
    ELSE x

\* A converted member put in front of the converted rest; the first error
\* ends the call.
prepend_converted(head, rest) ==
    IF ~Returned(head) THEN head
    ELSE IF ~Returned(rest) THEN rest
    ELSE Ok(<< head.val >> \o rest.val)

\* The item of a dict with its value converted; the key is kept.
with_key(key, converted) ==
    IF Returned(converted) THEN Ok([key |-> key, value |-> converted.val])
    ELSE converted

\* The container rebuilt from its converted members.
rebuilt(kind, converted) ==
    IF Returned(converted) THEN Ok([kind |-> kind, items |-> converted.val])
    ELSE converted

RECURSIVE make_json_serializable(_)
RECURSIVE converted_values(_, _)
RECURSIVE converted_items(_, _)

\* [make_json_serializable(item) for item in obj]
converted_values(items, i) ==
    IF i > Len(items) THEN Ok(<< >>)
    ELSE prepend_converted(make_json_serializable(items[i]),
                           converted_values(items, i + 1))

\* {k: make_json_serializable(v) for k, v in obj.items()}
converted_items(items, i) ==
    IF i > Len(items) THEN Ok(<< >>)
    ELSE prepend_converted(with_key(items[i].key, make_json_serializable(items[i].value)),
                           converted_items(items, i + 1))

make_json_serializable(o) ==
    CASE o.kind \in {"NoneType", "int", "str", "bool", "plain"} -> Ok(o)
      [] o.kind = "float" -> Ok(finite_float(o))
      [] o.kind = "dict" -> rebuilt("dict", converted_items(o.items, 1))
      [] o.kind \in {"list", "tuple"} -> rebuilt("list", converted_values(o.items, 1))
      [] o.kind = "geometry" -> simplified_geometry(o.geo_interface, o.str)
      [] o.kind = "array" ->
             IF Returned(o.tolist) THEN make_json_serializable(o.tolist.val) ELSE o.tolist
      [] o.kind = "series" ->
             IF Returned(o.to_dict) THEN make_json_serializable(o.to_dict.val) ELSE o.to_dict
      [] o.kind = "object" -> str_of(o.str)

\* return make_json_serializable(result), result being a dict of this model;
\* the converted value holds the dict again.
return_serializable(result) == Ok(make_json_serializable(Plain(result)).val.tree)

\* zone_type_distribution that counts the transects of the zones.
zone_type_distribution_of_transects(zones) ==
    [t \in {zones[j].zone_type : j \in 1..Len(zones)} |->
        Cardinality({<<j, m>> \in (1..Len(zones)) \X (1..MaxFeatures) :
                        zones[j].zone_type = t /\ m <= zones[j].transect_count})]

\* zone_type_counts: the number of zones per zone type.
zone_type_distribution(zones) ==
    [t \in {zones[j].zone_type : j \in 1..Len(zones)} |->
        Cardinality({j \in 1..Len(zones) : zones[j].zone_type = t})]

\* The report built when the site has no transects.
empty_report(site) ==
    [site_id |-> site,
     transect_count |-> 0,
     zones |-> << >>,
     transects |-> << >>,
     error |-> "No transects found for site"]

\* The report built from the zones and the transect map, once both calls
\* are over.
site_report(site, ts, k, items, zones, transect_dict) ==
    IF ~Returned(zones) THEN Raise(zones.exc, << >>)
    ELSE IF ~Returned(transect_dict) THEN Raise(transect_dict.exc, << >>)
    ELSE return_serializable(
            [site_id |-> site,
             transect_count |-> Len(ts),
             zone_count |-> Len(zones.val),
             zones |-> zones.val,
             zone_type_distribution |-> zone_type_distribution(zones.val),
             transects |-> transect_dict.val,
             zone_definitions_used |-> items,
             analysis_parameters |-> [min_zone_length |-> k]])

full_report(site, ts, k, items) ==
    site_report(site, ts, k, items,
                identify_narrative_zones(ts, k, Definitions(items)),
                create_transect_dict(ts, Definitions(items)))

\* report_of_loaded without the return for a site that has no transects.
report_of_loaded_no_early_return(site, loaded, k, items) ==
    IF ~Returned(loaded) THEN Raise(loaded.exc, << >>)
    ELSE full_report(site, loaded.val, k, items)

\* analyze_site after transects = load_transects_for_site(...), whose
\* outcome is loaded.
report_of_loaded(site, loaded, k, items) ==
    IF ~Returned(loaded) THEN Raise(loaded.exc, << >>)
    ELSE IF loaded.val = << >>
    THEN return_serializable(empty_report(site))
    ELSE full_report(site, loaded.val, k, items)

analyze_site(site, fs, k, defs) ==
    report_of_loaded(site, load_transects_for_site(site, fs), k,
                     IF defs.is_none THEN get_default_zone_definitions ELSE defs.items)

(***************************************************************************)
(* Inputs: transect attribute profiles, transects and rule sets.           *)
(***************************************************************************)
Eroding == [trend |-> Some(-100), beach_slope |-> Some(6), r2_score |-> Some(50),
            rmse |-> Some(1000), mae |-> Some(800), orientation |-> Some(9000)]
NoData == [trend |-> None, beach_slope |-> None, r2_score |-> None, rmse |-> None]
Steady == [trend |-> Some(0), beach_slope |-> Some(6), r2_score |-> Some(50),
           rmse |-> Some(1000), mae |-> None]

SegProfiles == {Eroding, NoData, Steady}
LongProfiles == {Eroding, NoData}

\* A GeoJSON feature of the transects file.
Transect(id, site, profile) ==
    [properties |-> [id |-> id, site_id |-> site, along_dist |-> 100 * id] @@ profile,
     geometry |-> [type |-> "LineString", coordinates |-> << <<id, 0>>, <<id, 1>> >>]]

SeqsUpTo(S, n) == UNION {[1..m -> S] : m \in 0..n}

\* The profile sequences of the segmentation runs: every mix of the three
\* profiles up to MaxShort transects, every mix of two up to MaxLen.
SegProfileSeqs == SeqsUpTo(SegProfiles, MaxShort) \cup SeqsUpTo(LongProfiles, MaxLen)

\* Transects of one site, ids ascending with the position.
TransectList(profiles) ==
    [i \in 1..Len(profiles) |-> Transect(i, "aus0001", profiles[i])]

\* A custom rule set with a catch-all and no priority on it.
TwoTypeRules ==
    << [name |-> "measured", def |-> [conditions |-> << >>,
                                      description_template |->
                                          << Text("Measured shoreline, "),
                                             Field("transect_count", ""),
                                             Text(" transects.") >>]],
       [name |-> "gap", def |->
          [priority |-> 1,
           conditions |-> << [field |-> "trend", operator |-> "is_null", value |-> None] >>,
           description_template |-> << Text("Gap of "), Field("length_km", ".1f"),
                                        Text("km.") >>]] >>

\* A custom rule set whose first rule names an operator that does not exist.
MalformedRules ==
    << [name |-> "odd", def |->
          [priority |-> 1,
           conditions |-> << [field |-> "trend", operator |-> "~=", value |-> 0] >>,
           description_template |-> << Text("Odd.") >>]],
       [name |-> "rest", def |-> [priority |-> 2, conditions |-> << >>]] >>

SegRuleSets == {NoDefinitions, Definitions(TwoTypeRules), Definitions(MalformedRules)}

NoCondition == [field |-> "trend", operator |-> "is_null", value |-> None]

(***************************************************************************)
(* Segmentation: one site's transects are segmented and classified.        *)
(***************************************************************************)
SegInit ==
    /\ features = << >>
    /\ site_id = "aus0001"
    /\ transects \in {TransectList(ps) : ps \in SegProfileSeqs}
    /\ zone_definitions \in SegRuleSets
    /\ min_zone_length \in 0..MaxK
    /\ condition = NoCondition
    /\ value = None
    /\ cond_res = NotCalled
    /\ class_res = << >>
    /\ zones_res = << >>
    /\ zones_k1 = NotCalled
    /\ dict_res = << >>
    /\ report = NotCalled
    /\ obj = PyNone
    /\ serialized = NotCalled

\* identify_narrative_zones(transects, min_zone_length, zone_definitions)
IdentifyNarrativeZones(limit) ==
    /\ Len(zones_res) < limit
    /\ zones_res' = Append(zones_res,
                           identify_narrative_zones(transects, min_zone_length, zone_definitions))
    /\ UNCHANGED <<features, site_id, transects, zone_definitions, min_zone_length,
                   condition, value, cond_res, class_res, zones_k1, dict_res, report,
                   obj, serialized>>

\* identify_narrative_zones(transects, 1, zone_definitions)
IdentifyMinLengthOne ==
    /\ ~Called(zones_k1)
    /\ zones_k1' = identify_narrative_zones(transects, 1, zone_definitions)
    /\ UNCHANGED <<features, site_id, transects, zone_definitions, min_zone_length,
                   condition, value, cond_res, class_res, zones_res, dict_res, report,
                   obj, serialized>>

\* create_transect_dict(transects, zone_definitions)
CreateTransectDict(limit) ==
    /\ Len(dict_res) < limit
    /\ dict_res' = Append(dict_res, create_transect_dict(transects, zone_definitions))
    /\ UNCHANGED <<features, site_id, transects, zone_definitions, min_zone_length,
                   condition, value, cond_res, class_res, zones_res, zones_k1, report,
                   obj, serialized>>

SegNext ==
    \/ IdentifyNarrativeZones(1)
    \/ IdentifyMinLengthOne
    \/ CreateTransectDict(1)

SegSpec == SegInit /\ [][SegNext]_vars

(***************************************************************************)
(* Classification: one condition is evaluated on one value, and one        *)
(* transect carrying that value as its trend is classified against rule    *)
(* sets built around the condition, in every enumeration order.            *)
(***************************************************************************)
KnownOperators == {"<", "<=", ">", ">=", "==", "!=", "is_null"}
ClsOperators == KnownOperators \cup {"~=", "in"}
ClsValues == {None, Some(-1), Some(0), Some(1)}
ClsSlopes == {None, Some(10)}

ClsConditions ==
    {[field |-> "trend", operator |-> op, value |-> 0] : op \in ClsOperators}
    \cup {[field |-> "trend", operator |-> op, value |-> 0, allow_null |-> an] :
             op \in ClsOperators, an \in BOOLEAN}

SlopeCondition == [field |-> "beach_slope", operator |-> ">", value |-> 8]

\* Three definitions with pairwise different priorities, the last a catch-all.
DistinctPriorityItems(c) ==
    << [name |-> "custom", def |-> [priority |-> 1, conditions |-> << c >>]],
       [name |-> "steep", def |-> [priority |-> 2, conditions |-> << SlopeCondition >>]],
       [name |-> "other", def |-> [priority |-> 3, conditions |-> << >>]] >>

\* Two definitions tied on priority 1, one without a priority.
TiedPriorityItems(c) ==
    << [name |-> "custom", def |-> [priority |-> 1, conditions |-> << c >>]],
       [name |-> "always", def |-> [priority |-> 1, conditions |-> << >>]],
       [name |-> "steep", def |-> [conditions |-> << SlopeCondition >>]] >>

\* Two definitions without a priority, one with.
DefaultPriorityItems(c) ==
    << [name |-> "custom", def |-> [conditions |-> << c >>]],
       [name |-> "always", def |-> [conditions |-> << >>]],
       [name |-> "steep", def |-> [priority |-> 1, conditions |-> << SlopeCondition >>]] >>

\* AND, OR and an unknown logic over the condition; no catch-all.
LogicItems(c) ==
    << [name |-> "both", def |-> [priority |-> 1, conditions |-> << SlopeCondition, c >>]],
       [name |-> "either", def |-> [priority |-> 2, logic |-> "OR",
                                    conditions |-> << SlopeCondition, c >>]],
       [name |-> "neither", def |-> [priority |-> 3, logic |-> "XOR",
                                     conditions |-> << c >>]] >>

\* A definition whose logic is written in lower case, ahead of a catch-all.
LowerCaseLogicItems(c) ==
    << [name |-> "custom", def |-> [priority |-> 1, logic |-> "and",
                                    conditions |-> << c >>]],
       [name |-> "other", def |-> [priority |-> 2, conditions |-> << >>]] >>

Permute(items, f) == [i \in 1..Len(items) |-> items[f[i]]]
AllOrders(items) == {Permute(items, f) : f \in Permutations(1..Len(items))}

ClsRuleSets(c) ==
    {Definitions(items) : items \in AllOrders(DistinctPriorityItems(c))
                                    \cup AllOrders(TiedPriorityItems(c))
                                    \cup AllOrders(DefaultPriorityItems(c))
                                    \cup AllOrders(LogicItems(c))
                                    \cup AllOrders(LowerCaseLogicItems(c))
                                    \cup {<< >>}}

ClsInit ==
    /\ features = << >>
    /\ site_id = "aus0001"
    /\ value \in ClsValues
    /\ condition \in ClsConditions
    /\ \E slope \in ClsSlopes :
          transects = << Transect(1, "aus0001",
                                  [trend |-> value, beach_slope |-> slope,
                                   r2_score |-> None, rmse |-> None]) >>
    /\ zone_definitions \in ClsRuleSets(condition)
    /\ min_zone_length = 1
    /\ cond_res = NotCalled
    /\ class_res = << >>
    /\ zones_res = << >>
    /\ zones_k1 = NotCalled
    /\ dict_res = << >>
    /\ report = NotCalled
    /\ obj = PyNone
    /\ serialized = NotCalled

\* evaluate_condition(value, condition)
EvaluateCondition ==
    /\ ~Called(cond_res)
    /\ cond_res' = evaluate_condition(value, condition)
    /\ UNCHANGED <<features, site_id, transects, zone_definitions, min_zone_length,
                   condition, value, class_res, zones_res, zones_k1, dict_res, report,
                   obj, serialized>>

\* classify_transect_zone(transects[i], zone_definitions)
ClassifyTransect(limit) ==
    /\ Len(class_res) < limit
    /\ \E i \in 1..Len(transects) :
          class_res' = Append(class_res,
                              [i |-> i,
                               res |-> classify_transect_zone(transects[i], zone_definitions)])
    /\ UNCHANGED <<features, site_id, transects, zone_definitions, min_zone_length,
                   condition, value, cond_res, zones_res, zones_k1, dict_res, report,
                   obj, serialized>>

ClsNext ==
    \/ EvaluateCondition
    \/ ClassifyTransect(1)

ClsSpec == ClsInit /\ [][ClsNext]_vars

(***************************************************************************)
(* Site analysis: a collection of features of several sites, in any order  *)
(* of ids, is analysed for one requested site.                             *)
(***************************************************************************)
Sites == {"aus0001", "nzd0001"}

\* The attributes of the feature with a given id.
ProfileOf(id) == IF id <= 2 THEN Eroding ELSE NoData

\* Collections of n features: ids 1..n in any order, each of either site.
Collections(n) ==
    {[i \in 1..n |-> Transect(order[i], site[i], ProfileOf(order[i]))] :
        order \in Permutations(1..n), site \in [1..n -> Sites]}

SiteRuleSets == {NoDefinitions, Definitions(MalformedRules)}

SiteInit ==
    /\ features \in UNION {Collections(n) : n \in 0..MaxFeatures}
    /\ site_id \in Sites
    /\ transects = << >>
    /\ zone_definitions \in SiteRuleSets
    /\ min_zone_length \in 1..2
    /\ condition = NoCondition
    /\ value = None
    /\ cond_res = NotCalled
    /\ class_res = << >>
    /\ zones_res = << >>
    /\ zones_k1 = NotCalled
    /\ dict_res = << >>
    /\ report = NotCalled
    /\ obj = PyNone
    /\ serialized = NotCalled

\* transects = load_transects_for_site(site_id, transects_file), as a caller
\* of the core does before it segments.
LoadTransectsForSite ==
    /\ transects = << >>
    /\ Returned(load_transects_for_site(site_id, features))
    /\ load_transects_for_site(site_id, features).val # << >>
    /\ transects' = load_transects_for_site(site_id, features).val
    /\ UNCHANGED <<features, site_id, zone_definitions, min_zone_length, condition,
                   value, cond_res, class_res, zones_res, zones_k1, dict_res, report,
                   obj, serialized>>

\* analyze_site(site_id, transects_file, min_zone_length, zone_definitions)
AnalyzeSite ==
    /\ ~Called(report)
    /\ report' = analyze_site(site_id, features, min_zone_length, zone_definitions)
    /\ UNCHANGED <<features, site_id, transects, zone_definitions, min_zone_length,
                   condition, value, cond_res, class_res, zones_res, zones_k1, dict_res,
                   obj, serialized>>

SiteNext ==
    \/ LoadTransectsForSite
    \/ AnalyzeSite

SiteSpec == SiteInit /\ [][SiteNext]_vars

(***************************************************************************)
(* Serialization: make_json_serializable is applied to one object: a leaf, *)
(* a container of up to MaxItems members, a container in a container, or a *)
(* foreign object.                                                         *)
(***************************************************************************)
SerFloats == {Finite(150), NaN, Inf(1), Inf(-1)}

\* The coordinates of a line of two points.
LineCoordinates(x, y) ==
    PyTuple(<< PyTuple(<< x, Finite(0) >>), PyTuple(<< Finite(100), y >>) >>)

\* What __geo_interface__ gives: a mapping with or without its keys, or an
\* error.
GeoInterfaces ==
    {Ok(PyDict(<< [key |-> "type", value |-> PyStr("LineString")],
                  [key |-> "coordinates", value |-> LineCoordinates(x, y)] >>)) :
        x \in SerFloats, y \in SerFloats}
    \cup {Ok(PyDict(<< [key |-> "type", value |-> PyStr("Point")],
                       [key |-> "coordinates", value |-> PyTuple(<< x, Finite(0) >>)] >>)) :
             x \in SerFloats}
    \cup {Ok(PyDict(<< [key |-> "type", value |-> PyStr("Polygon")],
                       [key |-> "coordinates",
                        value |-> PyTuple(<< LineCoordinates(x, Finite(0)) >>)] >>)) :
             x \in SerFloats}
    \cup {Ok(PyDict(<< [key |-> "type", value |-> PyStr("Point")] >>)),
          Ok(PyDict(<< [key |-> "coordinates", value |-> PyTuple(<< >>)] >>)),
          Raise("ValueError", PyNone)}

\* The members of the containers.
SerMembers ==
    SerFloats \cup {PyNone, PyInt(1), OtherObject(Raise("TypeError", "")),
                    Geometry(Ok(PyDict(<< [key |-> "type", value |-> PyStr("Point")],
                                          [key |-> "coordinates",
                                           value |-> PyTuple(<< NaN, Finite(0) >>)] >>)),
                             Ok("POINT"))}

\* A dict of the members, under keys that tell them apart.
DictOf(members) ==
    PyDict([i \in 1..Len(members) |->
               [key |-> IF i = 1 THEN "a" ELSE "b" \o ToString(i), value |-> members[i]]])

SerContainers ==
    {PyList(ms) : ms \in SeqsUpTo(SerMembers, MaxItems)}
    \cup {PyTuple(ms) : ms \in SeqsUpTo(SerMembers, MaxItems)}
    \cup {DictOf(ms) : ms \in SeqsUpTo(SerMembers, MaxItems)}

\* Leaves, foreign objects, containers, containers in containers, and foreign
\* objects that give containers.
SerObjects ==
    SerFloats \cup {PyNone, PyInt(1), PyStr("a")}
    \cup {OtherObject(text) : text \in {Ok("<object>"), Raise("TypeError", "")}}
    \cup {Geometry(g, text) : g \in GeoInterfaces,
                              text \in {Ok("<object>"), Raise("TypeError", "")}}
    \cup SerContainers
    \cup {PyList(<< c >>) : c \in SerContainers}
    \cup {PyDict(<< [key |-> "a", value |-> c] >>) : c \in SerContainers}
    \cup {ArrayLike(Ok(PyList(ms))) : ms \in SeqsUpTo(SerMembers, MaxItems)}
    \cup {SeriesLike(Ok(DictOf(ms))) : ms \in SeqsUpTo(SerMembers, MaxItems)}
    \cup {ArrayLike(Raise("RuntimeError", PyNone)), SeriesLike(Raise("RuntimeError", PyNone))}

SerInit ==
    /\ features = << >>
    /\ site_id = "aus0001"
    /\ transects = << >>
    /\ zone_definitions = NoDefinitions
    /\ min_zone_length = 1
    /\ condition = NoCondition
    /\ value = None
    /\ cond_res = NotCalled
    /\ class_res = << >>
    /\ zones_res = << >>
    /\ zones_k1 = NotCalled
    /\ dict_res = << >>
    /\ report = NotCalled
    /\ obj \in SerObjects
    /\ serialized = NotCalled

\* make_json_serializable(obj)
MakeJsonSerializable ==
    /\ ~Called(serialized)
    /\ serialized' = make_json_serializable(obj)
    /\ UNCHANGED <<features, site_id, transects, zone_definitions, min_zone_length,
                   condition, value, cond_res, class_res, zones_res, zones_k1,
                   dict_res, report, obj>>

SerNext == MakeJsonSerializable

SerSpec == SerInit /\ [][SerNext]_vars

(***************************************************************************)
(* Templates: transects are segmented under a rule set whose catch-all     *)
(* definition carries one description template out of a range of good and  *)
(* bad ones.                                                               *)
(***************************************************************************)
Templates ==
    { << Text("Span of "), Field("length_km", ".1f"), Text("km, "),
         Field("transect_count", "d"), Text(" transects, "),
         Field("avg_trend", ".2f"), Text("m/year.") >>,
      << Text("Trend "), Field("avg_trend", "d"), Text(".") >>,
      << Text("Width "), Field("width_km", ".1f"), Text("km.") >>,
      << Text("Span of "), Field("length_km", "q"), Text("km.") >>,
      << Text("Zone "), Field("", ""), Text(" of "), Field("length_km", ".1f"),
         Text("km.") >>,
      << Text("Width "), Field("width_km", ".1f"), Text(", zone "), Field("", "") >> }

\* A definition for transects without trend, and a catch-all with the template.
TemplateRules(template) ==
    << [name |-> "gap", def |->
          [priority |-> 1,
           conditions |-> << [field |-> "trend", operator |-> "is_null", value |-> None] >>,
           description_template |->
               << Text("Gap of "), Field("length_km", ".1f"), Text("km.") >>]],
       [name |-> "measured", def |->
          [priority |-> 2, conditions |-> << >>, description_template |-> template]] >>

\* The rule sets with each template, and a catch-all without any template.
TemplateRuleSets ==
    {Definitions(TemplateRules(t)) : t \in Templates}
    \cup {Definitions(<< [name |-> "measured",
                          def |-> [priority |-> 2, conditions |-> << >>]] >>)}

TplInit ==
    /\ features = << >>
    /\ site_id = "aus0001"
    /\ transects \in {TransectList(ps) : ps \in SeqsUpTo(SegProfiles, MaxShort)}
    /\ zone_definitions \in TemplateRuleSets
    /\ min_zone_length \in 1..MaxK
    /\ condition = NoCondition
    /\ value = None
    /\ cond_res = NotCalled
    /\ class_res = << >>
    /\ zones_res = << >>
    /\ zones_k1 = NotCalled
    /\ dict_res = << >>
    /\ report = NotCalled
    /\ obj = PyNone
    /\ serialized = NotCalled

TplNext == IdentifyNarrativeZones(1)

TplSpec == TplInit /\ [][TplNext]_vars

(***************************************************************************)
(* Missing keys: transects whose properties lack the trend, the beach_slope *)
(* or the r2_score key are segmented and classified.                        *)
(***************************************************************************)
\* The attributes without one key.
WithoutKey(profile, key) == [k \in DOMAIN profile \ {key} |-> profile[k]]

KeyInit ==
    /\ features = << >>
    /\ site_id = "aus0001"
    /\ transects \in
          {TransectList(ps) :
              ps \in SeqsUpTo({Eroding, NoData, WithoutKey(Eroding, "r2_score")}
                              \cup {WithoutKey(NoData, key) : key \in {"trend", "beach_slope"}},
                              MaxShort)}
    /\ zone_definitions \in {NoDefinitions, Definitions(TwoTypeRules)}
    /\ min_zone_length \in 1..MaxK
    /\ condition = NoCondition
    /\ value = None
    /\ cond_res = NotCalled
    /\ class_res = << >>
    /\ zones_res = << >>
    /\ zones_k1 = NotCalled
    /\ dict_res = << >>
    /\ report = NotCalled
    /\ obj = PyNone
    /\ serialized = NotCalled

KeyNext ==
    \/ IdentifyNarrativeZones(1)
    \/ CreateTransectDict(1)

KeySpec == KeyInit /\ [][KeyNext]_vars

(***************************************************************************)
(* Default rules: one transect, each of its four classified fields missing, *)
(* null or a value on or next to a threshold, is classified under the      *)
(* built-in rule set, and under copies of it whose catch-all has a smaller *)
(* priority number.                                                        *)
(***************************************************************************)
\* A field of the properties: the key missing, or present with a value.
FieldChoices(values) ==
    {[has_key |-> FALSE, v |-> None]}
    \cup {[has_key |-> TRUE, v |-> x] : x \in {None} \cup {Some(n) : n \in values}}

\* The properties with the field, or without its key.
WithField(props, name, choice) ==
    IF choice.has_key
    THEN [key \in DOMAIN props \cup {name} |-> IF key = name THEN choice.v ELSE props[key]]
    ELSE props

DefTransect(trend, slope, r2, rmse) ==
    [properties |->
        WithField(WithField(WithField(WithField(
            [id |-> 1, site_id |-> "aus0001", along_dist |-> 100],
            "trend", trend), "beach_slope", slope), "r2_score", r2), "rmse", rmse),
     geometry |-> [type |-> "LineString", coordinates |-> << <<1, 0>>, <<1, 1>> >>]]

\* The built-in table as a custom rule set, its catch-all moved to another
\* priority.
StableAt(priority) ==
    [i \in 1..Len(get_default_zone_definitions) |->
        IF get_default_zone_definitions[i].name = "stable"
        THEN [get_default_zone_definitions[i] EXCEPT !.def.priority = priority]
        ELSE get_default_zone_definitions[i]]

DefInit ==
    /\ features = << >>
    /\ site_id = "aus0001"
    /\ \E trend \in FieldChoices({-81, -80, -31, -30, 0, 30, 31, 80, 81}),
          slope \in FieldChoices({3, 4, 6, 8, 9}),
          r2 \in FieldChoices({4, 5, 50}),
          rmse \in FieldChoices({1000, 3000, 3001}) :
          transects = << DefTransect(trend, slope, r2, rmse) >>
    /\ zone_definitions \in {NoDefinitions} \cup {Definitions(StableAt(p)) : p \in {0, 5, 7}}
    /\ min_zone_length = 1
    /\ condition = NoCondition
    /\ value = None
    /\ cond_res = NotCalled
    /\ class_res = << >>
    /\ zones_res = << >>
    /\ zones_k1 = NotCalled
    /\ dict_res = << >>
    /\ report = NotCalled
    /\ obj = PyNone
    /\ serialized = NotCalled

DefNext == ClassifyTransect(1)

DefSpec == DefInit /\ [][DefNext]_vars

(***************************************************************************)
(* Zone summaries: transects placed at surveyed distances along the shore, *)
(* with attributes that are present in some members of a zone and absent   *)
(* in others, are segmented and analysed as one site; a long shore whose   *)
(* every second or every third transect has no data gives more than nine   *)
(* zones, or zones with dropped runs between them.                         *)
(***************************************************************************)
\* A custom rule set without a catch-all: its templates print aggregates
\* that a zone may lack, and a transect that matches neither definition gets
\* the fallback type, which the rule set does not define.
SummaryRules ==
    << [name |-> "gap", def |->
          [priority |-> 1,
           conditions |-> << [field |-> "trend", operator |-> "is_null", value |-> None] >>,
           description_template |->
               << Text("Gap of "), Field("length_km", ".1f"), Text("km, trend "),
                  Field("avg_trend", ".2f"), Text(", rmse "), Field("avg_rmse", ""),
                  Text(".") >>]],
       [name |-> "retreat", def |->
          [priority |-> 2,
           conditions |-> << [field |-> "trend", operator |-> "<", value |-> 0] >>,
           description_template |->
               << Text("Retreat over "), Field("length_km", ""), Text("km, cil "),
                  Field("avg_cil", ".1f"), Text(".") >>]] >>

\* Distances along the shore for n transects: ascending, ascending with the
\* first or the last one apart, descending, and there and back.
Surveys(n) ==
    {[i \in 1..n |-> IF i = 1 THEN 100 ELSE 340],
     [i \in 1..n |-> IF i = n THEN 340 ELSE 100],
     [i \in 1..n |-> IF i = 1 THEN 340 ELSE 100],
     [i \in 1..n |-> IF i % 2 = 1 THEN 100 ELSE 340]}

\* The transects of one site at the given distances along the shore, their
\* ids ascending from 11.
SurveyedList(profiles, dists) ==
    [i \in 1..Len(profiles) |->
        [TransectList(profiles)[i] EXCEPT !.properties["along_dist"] = dists[i],
                                          !.properties["id"] = 10 + i]]

SumInit ==
    /\ site_id = "aus0001"
    /\ transects \in
          UNION {{SurveyedList(ps, ds) : ds \in Surveys(Len(ps))} :
                    ps \in SeqsUpTo(SegProfiles
                                    \cup {[trend |-> None, beach_slope |-> Some(6),
                                           r2_score |-> None, rmse |-> Some(2000)],
                                          [trend |-> Some(-50), beach_slope |-> Some(4),
                                           r2_score |-> Some(50), rmse |-> None,
                                           cil |-> Some(-150)]},
                                    MaxShort)}
          \cup {TransectList([i \in 1..ManyZones |->
                                 IF i % step = 0 THEN NoData ELSE Eroding]) :
                   step \in {2, 3}}
    /\ features = transects
    /\ zone_definitions \in {NoDefinitions, Definitions(SummaryRules)}
    /\ min_zone_length \in 1..2
    /\ condition = NoCondition
    /\ value = None
    /\ cond_res = NotCalled
    /\ class_res = << >>
    /\ zones_res = << >>
    /\ zones_k1 = NotCalled
    /\ dict_res = << >>
    /\ report = NotCalled
    /\ obj = PyNone
    /\ serialized = NotCalled

SumNext ==
    \/ IdentifyNarrativeZones(1)
    \/ AnalyzeSite

SumSpec == SumInit /\ [][SumNext]_vars

(***************************************************************************)
(* Repeated runs: the same transects, rule set and minimum length are      *)
(* classified, segmented and mapped twice, the calls in any order.         *)
(***************************************************************************)
RepeatInit ==
    /\ features = << >>
    /\ site_id = "aus0001"
    /\ transects \in {TransectList(ps) : ps \in SeqsUpTo(LongProfiles, MaxRepeat) \ {<< >>}}
    /\ zone_definitions \in SegRuleSets
    /\ min_zone_length \in 0..MaxK
    /\ condition = NoCondition
    /\ value = None
    /\ cond_res = NotCalled
    /\ class_res = << >>
    /\ zones_res = << >>
    /\ zones_k1 = NotCalled
    /\ dict_res = << >>
    /\ report = NotCalled
    /\ obj = PyNone
    /\ serialized = NotCalled

RepeatNext ==
    \/ ClassifyTransect(2)
    \/ IdentifyNarrativeZones(2)
    \/ CreateTransectDict(2)

RepeatSpec == RepeatInit /\ [][RepeatNext]_vars

(***************************************************************************)
(* Properties of the segmentation.                                         *)
(***************************************************************************)
\* The zone type of the transect at position i (from 1) of the input.
ClassAt(i) == classify_transect_zone(transects[i], zone_definitions).val

\* The zone types of the input, position by position.
RECURSIVE ClassesUpTo(_)
ClassesUpTo(n) == IF n = 0 THEN << >> ELSE Append(ClassesUpTo(n - 1), ClassAt(n))
Classes == ClassesUpTo(Len(transects))

\* Positions a..b (from 1) are a maximal run of equal classification in cls.
IsMaximalRun(cls, a, b) ==
    /\ \A i \in a..b : cls[i] = cls[a]
    /\ (a > 1 => cls[a - 1] # cls[a])
    /\ (b < Len(cls) => cls[b + 1] # cls[b])

\* Number of transects covered by the zones of a list.
RECURSIVE Covered(_)
Covered(zs) == IF zs = << >> THEN 0 ELSE zs[1].transect_count + Covered(Tail(zs))

\* C1: whenever identify_narrative_zones returns, its list is exactly the
\* maximal runs of equal classification of length >= min_zone_length, in input
\* order: each zone is such a run and carries the run's type, no such run
\* (the last one included) is missing, and an empty input gives an empty list.
C1_ExactMaximalRuns ==
    \A c \in 1..Len(zones_res) : Returned(zones_res[c]) =>
        LET zs == zones_res[c].val
            n == Len(transects)
            cls == Classes
        IN  /\ (n = 0 => zs = << >>)
            /\ \A j \in 1..Len(zs) :
                  LET a == zs[j].start_index + 1
                      b == zs[j].end_index + 1
                  IN  /\ a \in 1..n /\ b \in a..n
                      /\ IsMaximalRun(cls, a, b)
                      /\ b - a + 1 >= min_zone_length
                      /\ zs[j].transect_count = b - a + 1
                      /\ zs[j].zone_type = cls[a]
            /\ \A a \in 1..n : \A b \in a..n :
                  (b - a + 1 >= min_zone_length /\ IsMaximalRun(cls, a, b)) =>
                      \E j \in 1..Len(zs) :
                          zs[j].start_index = a - 1 /\ zs[j].end_index = b - 1
            /\ \A j \in 1..(Len(zs) - 1) : zs[j].start_index < zs[j + 1].start_index

\* A run was dropped, two zones were emitted and the last one is the final run.
C1_Witness ==
    \E c \in 1..Len(zones_res) :
        /\ Returned(zones_res[c])
        /\ Len(zones_res[c].val) >= 2
        /\ zones_res[c].val[Len(zones_res[c].val)].end_index = Len(transects) - 1
        /\ Covered(zones_res[c].val) < Len(transects)

\* C2: every zone identify_narrative_zones emits has at least min_zone_length
\* transects.
C2_MinimumLength ==
    \A c \in 1..Len(zones_res) : Returned(zones_res[c]) =>
        \A j \in 1..Len(zones_res[c].val) :
            zones_res[c].val[j].transect_count >= min_zone_length

\* With min_zone_length 2 a zone of exactly two transects is emitted and a
\* shorter run is dropped.
C2_Witness ==
    \E c \in 1..Len(zones_res) :
        /\ Returned(zones_res[c])
        /\ min_zone_length = 2
        /\ \E j \in 1..Len(zones_res[c].val) : zones_res[c].val[j].transect_count = 2
        /\ Covered(zones_res[c].val) < Len(transects)

\* C3 as stated: no two consecutive emitted zones have the same zone_type.
C3_NoConsecutiveSameType ==
    \A c \in 1..Len(zones_res) : Returned(zones_res[c]) =>
        \A j \in 1..(Len(zones_res[c].val) - 1) :
            zones_res[c].val[j].zone_type # zones_res[c].val[j + 1].zone_type

\* C3: two consecutive emitted zones of the same zone_type are never contiguous
\* in the input: at least one transect (of a dropped run) lies between them.
C3_SameTypeNeverContiguous ==
    \A c \in 1..Len(zones_res) : Returned(zones_res[c]) =>
        \A j \in 1..(Len(zones_res[c].val) - 1) :
            zones_res[c].val[j].zone_type = zones_res[c].val[j + 1].zone_type =>
                zones_res[c].val[j].end_index + 1 < zones_res[c].val[j + 1].start_index

\* Two consecutive emitted zones have one type, a dropped run between them.
C3_Witness ==
    \E c \in 1..Len(zones_res) :
        /\ Returned(zones_res[c])
        /\ \E j \in 1..(Len(zones_res[c].val) - 1) :
              /\ zones_res[c].val[j].zone_type = zones_res[c].val[j + 1].zone_type
              /\ zones_res[c].val[j].end_index + 1 < zones_res[c].val[j + 1].start_index

\* C4: consecutive zones of the output do not overlap and keep the input
\* order, so every position of the input lies in at most one zone.
C4_NoOverlap ==
    \A c \in 1..Len(zones_res) : Returned(zones_res[c]) =>
        LET zs == zones_res[c].val
        IN  /\ \A j \in 1..(Len(zs) - 1) : zs[j].end_index < zs[j + 1].start_index
            /\ \A p \in 0..(Len(transects) - 1) :
                  Cardinality({j \in 1..Len(zs) :
                                  zs[j].start_index <= p /\ p <= zs[j].end_index}) <= 1

\* Three zones were emitted for one site.
C4_Witness ==
    \E c \in 1..Len(zones_res) :
        Returned(zones_res[c]) /\ Len(zones_res[c].val) >= 3

\* C5: for a non-empty input the map of create_transect_dict has exactly one
\* entry per transect, under its id, with the transect's properties and
\* zone_classification = classify(transect), also for the transects of dropped
\* runs; and every id in a zone's transect_ids is a key of the map.
C5_TransectMap ==
    \A d \in 1..Len(dict_res) : (Returned(dict_res[d]) /\ transects # << >>) =>
        LET m == dict_res[d].val
        IN  /\ DOMAIN m = {transects[i].properties["id"] : i \in 1..Len(transects)}
            /\ Cardinality(DOMAIN m) = Len(transects)
            /\ \A i \in 1..Len(transects) :
                  LET e == m[transects[i].properties["id"]]
                  IN  /\ e.zone_classification = ClassAt(i)
                      /\ e.properties = transects[i].properties
            /\ \A c \in 1..Len(zones_res) : Returned(zones_res[c]) =>
                  \A j \in 1..Len(zones_res[c].val) :
                      \A x \in 1..Len(zones_res[c].val[j].transect_ids) :
                          zones_res[c].val[j].transect_ids[x] \in DOMAIN m

\* The map was built for an input of which a zone was emitted and a run dropped.
C5_Witness ==
    \E d \in 1..Len(dict_res) : \E c \in 1..Len(zones_res) :
        /\ Returned(dict_res[d]) /\ Returned(zones_res[c])
        /\ Len(zones_res[c].val) >= 1
        /\ Covered(zones_res[c].val) < Len(transects)
        /\ Cardinality(DOMAIN dict_res[d].val) = Len(transects)

\* C9: for min_zone_length k >= 1 the zones emitted with length 1 cover at
\* least as many transects as the zones emitted with k.
C9_ShrinkingCoversMore ==
    \A c \in 1..Len(zones_res) :
        (min_zone_length >= 1 /\ Returned(zones_res[c]) /\ Returned(zones_k1)) =>
            Covered(zones_k1.val) >= Covered(zones_res[c].val)

\* With k = 2 some transects are covered, and length 1 covers strictly more.
C9_Witness ==
    \E c \in 1..Len(zones_res) :
        /\ min_zone_length = 2 /\ Returned(zones_res[c]) /\ Returned(zones_k1)
        /\ Covered(zones_res[c].val) > 0
        /\ Covered(zones_k1.val) > Covered(zones_res[c].val)

(***************************************************************************)
(* Properties of the classification.                                       *)
(***************************************************************************)
\* The rule set a call works with.
ItemsInUse == IF zone_definitions.is_none THEN get_default_zone_definitions
              ELSE zone_definitions.items

\* The definition selects the transect: its conditions evaluate to a match.
Matches(transect, item) ==
    LET r == zone_matches(transect.properties, item.def)
    IN  Returned(r) /\ r.val

\* Of two matching definitions with different priorities, the one with the
\* larger priority value is not the result.
PriorityLaw(e) ==
    Returned(e.res) =>
        \A a \in 1..Len(ItemsInUse) : \A b \in 1..Len(ItemsInUse) :
            (/\ Matches(transects[e.i], ItemsInUse[a])
             /\ Matches(transects[e.i], ItemsInUse[b])
             /\ Priority(ItemsInUse[a]) < Priority(ItemsInUse[b]))
            => e.res.val # ItemsInUse[b].name

\* Every enumeration order of the rule set gives the outcome of the call.
SameForEveryOrder(e) ==
    \A items \in AllOrders(ItemsInUse) :
        classify_transect_zone_custom(transects[e.i], items) = e.res

DistinctPriorities ==
    \A a \in 1..Len(ItemsInUse) : \A b \in 1..Len(ItemsInUse) :
        a # b => Priority(ItemsInUse[a]) # Priority(ItemsInUse[b])

\* C6 as stated: the priority law, and the same result for every permutation
\* of the rule set.
C6_PriorityLawEveryPermutation ==
    \A n \in 1..Len(class_res) :
        PriorityLaw(class_res[n]) /\ SameForEveryOrder(class_res[n])

\* C6: of two matching definitions with different priority values the one with
\* the larger value is never returned, whatever the enumeration order; and the
\* result is the same for every permutation of a rule set whose priority
\* values are pairwise different.
C6_PriorityLaw ==
    \A n \in 1..Len(class_res) :
        /\ PriorityLaw(class_res[n])
        /\ (DistinctPriorities => SameForEveryOrder(class_res[n]))

\* Two matching definitions with different priorities, the larger one listed
\* first, and the call returned the smaller one.
C6_Witness ==
    \E n \in 1..Len(class_res) : \E a \in 1..Len(ItemsInUse) : \E b \in 1..Len(ItemsInUse) :
        /\ Returned(class_res[n].res)
        /\ DistinctPriorities
        /\ b < a
        /\ Matches(transects[class_res[n].i], ItemsInUse[a])
        /\ Matches(transects[class_res[n].i], ItemsInUse[b])
        /\ Priority(ItemsInUse[a]) < Priority(ItemsInUse[b])
        /\ class_res[n].res.val = ItemsInUse[a].name

HasUnknownOperator(items) ==
    \E i \in 1..Len(items) :
        \E j \in 1..Len(Get(items[i].def, "conditions", << >>)) :
            items[i].def.conditions[j].operator \notin KnownOperators

\* C7 as stated: a condition with an unknown operator makes evaluate_condition
\* raise for every value, present or absent, and classifying a transect against
\* a rule set that holds such a condition raises too.
C7_UnknownOperatorAlwaysRaises ==
    /\ (Called(cond_res) /\ condition.operator \notin KnownOperators)
          => cond_res.exc = "ValueError"
    /\ \A n \in 1..Len(class_res) :
          HasUnknownOperator(ItemsInUse) => class_res[n].res.exc = "ValueError"

(***************************************************************************)
(* Properties of the site analysis.                                        *)
(***************************************************************************)
NoTransectOfSite ==
    \A i \in 1..Len(features) : features[i].properties["site_id"] # site_id

\* C10: when no feature of the collection belongs to the requested site,
\* analyze_site returns, whatever the rule set (no rule is evaluated, so a
\* malformed one cannot raise), a report with transect_count 0, no zones, no
\* transects and an error field.
C10_NoTransectsReport ==
    (Called(report) /\ NoTransectOfSite) =>
        /\ Returned(report)
        /\ report.val = [site_id |-> site_id,
                         transect_count |-> 0,
                         zones |-> << >>,
                         transects |-> << >>,
                         error |-> "No transects found for site"]

\* The collection holds features, all of another site, the rule set is the
\* malformed one, and analyze_site has been called.
C10_Witness ==
    /\ Called(report)
    /\ NoTransectOfSite
    /\ features # << >>
    /\ zone_definitions = Definitions(MalformedRules)

(***************************************************************************)
(* Properties of repeated runs.                                            *)
(***************************************************************************)
\* Calls with the same arguments have had the same outcome so far.
SameOutcomes ==
    /\ \A m \in 1..Len(class_res) : \A n \in 1..Len(class_res) :
          class_res[m].i = class_res[n].i => class_res[m].res = class_res[n].res
    /\ \A c \in 1..Len(zones_res) : zones_res[c] = zones_res[1]
    /\ \A d \in 1..Len(dict_res) : dict_res[d] = dict_res[1]

\* A step leaves the arguments as they were.
ArgumentsKept ==
    /\ transects' = transects
    /\ zone_definitions' = zone_definitions
    /\ min_zone_length' = min_zone_length

RECURSIVE HoldsNaNOrInfinity(_)
HoldsNaNOrInfinity(v) ==
    CASE v.kind = "float" -> v.class \in {"nan", "inf"}
      [] v.kind \in {"list", "tuple"} ->
             \E i \in 1..Len(v.items) : HoldsNaNOrInfinity(v.items[i])
      [] v.kind = "dict" ->
             \E i \in 1..Len(v.items) : HoldsNaNOrInfinity(v.items[i].value)
      [] OTHER -> FALSE

\* C11: the value returned by make_json_serializable holds no NaN and no
\* infinity at any depth, whether the input had it as a mapping value, as a
\* sequence element or inside the coordinates of a geometry.
C11_NoNaNNoInfinity ==
    (Called(serialized) /\ Returned(serialized)) => ~HoldsNaNOrInfinity(serialized.val)

\* C12: make_json_serializable returns a value for every object it is given.
C12_Total == Called(serialized) => Returned(serialized)

(***************************************************************************)
(* Claims on the description templates.                                    *)
(***************************************************************************)
\* The description is the rendered template of the zone's type, or the
\* generic fallback text when the template cannot be rendered.
RenderedOrFallback(zone, defs) ==
    LET rendered == str_format(template_of(zone.zone_type, defs.items),
                               template_vars(zone), 1)
    IN  zone.narrative_description =
            IF Returned(rendered) THEN rendered.val ELSE fallback_description(zone)

\* C13: whatever the description template of the rule set, segmentation
\* returns its zones, each with the rendered template or the generic
\* fallback text as its description.
C13_DescriptionNeverFails ==
    \A c \in 1..Len(zones_res) :
        /\ Returned(zones_res[c])
        /\ \A z \in 1..Len(zones_res[c].val) :
              RenderedOrFallback(zones_res[c].val[z], zone_definitions)

(***************************************************************************)
(* Claims on missing keys.                                                 *)
(***************************************************************************)
AggregatedKeys == {"trend", "beach_slope", "r2_score"}

\* The transects with every missing trend, beach_slope and r2_score key
\* present and null.
WithNulls(ts) ==
    [i \in 1..Len(ts) |->
        [ts[i] EXCEPT !.properties =
            [key \in DOMAIN ts[i].properties \cup AggregatedKeys |->
                Get(ts[i].properties, key, None)]]]

\* C14: a transect that lacks the trend, beach_slope or r2_score key is
\* segmented exactly as if the key were present and null: the call returns,
\* and its zones are those of the transects with the key set to null.
C14_MissingKeyLikeNull ==
    \A c \in 1..Len(zones_res) :
        zones_res[c] = identify_narrative_zones(WithNulls(transects), min_zone_length,
                                                zone_definitions)

(***************************************************************************)
(* Claims on the default rule set.                                         *)
(***************************************************************************)
\* The value of a field of the classified transect, None without the key.
FieldOf(e, name) == Get(transects[e.i].properties, name, None)

\* C15: under the default rule set a transect whose trend is absent is
\* classified no_data, whatever its beach_slope, r2_score and rmse, present
\* or absent.
C15_AbsentTrendIsNoData ==
    \A n \in 1..Len(class_res) :
        (zone_definitions.is_none /\ FieldOf(class_res[n], "trend") = None)
            => class_res[n].res = Ok("no_data")

\* A transect without trend whose slope is steep and whose fit is poor was
\* classified.
C15_Witness ==
    \E n \in 1..Len(class_res) :
        /\ zone_definitions.is_none
        /\ FieldOf(class_res[n], "trend") = None
        /\ FieldOf(class_res[n], "beach_slope") = Some(9)
        /\ FieldOf(class_res[n], "r2_score") = Some(4)
        /\ FieldOf(class_res[n], "rmse") = Some(3001)
        /\ class_res[n].res = Ok("no_data")

(***************************************************************************)
(* Claims on evaluate_condition and on the choice of the definition.       *)
(***************************************************************************)
\* The numeric comparison that an operator names.
Compares(operator, x, threshold) ==
    \/ operator = "<" /\ x < threshold
    \/ operator = "<=" /\ (x < threshold \/ x = threshold)
    \/ operator = ">" /\ threshold < x
    \/ operator = ">=" /\ (threshold < x \/ x = threshold)
    \/ operator = "==" /\ x = threshold
    \/ operator = "!=" /\ x # threshold

\* C16: on an absent value evaluate_condition returns true for is_null and
\* the allow_null flag (false when omitted) for every other operator; on a
\* present value is_null gives false and <, <=, >, >=, ==, != give the
\* numeric comparison of the value with the threshold.
C16_EvaluateCondition ==
    Called(cond_res) =>
        IF value = None
        THEN cond_res = Ok(IF condition.operator = "is_null" THEN TRUE
                           ELSE "allow_null" \in DOMAIN condition /\ condition.allow_null)
        ELSE condition.operator \in KnownOperators =>
                 cond_res = Ok(Compares(condition.operator, value[1], condition.value))

\* A value equal to the threshold was compared with <=.
C16_Witness ==
    /\ Called(cond_res)
    /\ condition.operator = "<="
    /\ value = Some(condition.value)
    /\ cond_res = Ok(TRUE)

\* The condition evaluates true on the transect's value of its field.
ConditionTrue(props, cond) ==
    evaluate_condition(Get(props, cond["field"], None), cond) = Ok(TRUE)

\* The definition matches: no conditions, or AND (also when logic is left
\* out) with every condition true, or OR with some condition true.
DefinitionMatches(props, def) ==
    LET conditions == Get(def, "conditions", << >>)
        logic == Get(def, "logic", "AND")
    IN  \/ conditions = << >>
        \/ logic = "AND" /\ \A j \in 1..Len(conditions) : ConditionTrue(props, conditions[j])
        \/ logic = "OR" /\ \E j \in 1..Len(conditions) : ConditionTrue(props, conditions[j])

\* Item a comes ahead of item b in ascending priority order, the enumeration
\* order deciding between equal priorities.
Ahead(items, a, b) ==
    \/ Priority(items[a]) < Priority(items[b])
    \/ Priority(items[a]) = Priority(items[b]) /\ a < b

\* The item is the first matching one in ascending priority order.
FirstMatching(props, items, a) ==
    /\ DefinitionMatches(props, items[a].def)
    /\ \A b \in 1..Len(items) :
          (b # a /\ DefinitionMatches(props, items[b].def)) => Ahead(items, a, b)

NoneMatches(props, items) ==
    \A a \in 1..Len(items) : ~DefinitionMatches(props, items[a].def)

\* C17: when classify returns and some definition matches the transect, the
\* result is the first matching definition in ascending priority order, a
\* definition matching iff it has no conditions, or its logic is AND (the
\* default) and all its conditions are true, or its logic is OR and one is.
C17_FirstMatchInPriorityOrder ==
    \A n \in 1..Len(class_res) :
        LET props == transects[class_res[n].i].properties
        IN  (Returned(class_res[n].res) /\ ~NoneMatches(props, ItemsInUse)) =>
                \E a \in 1..Len(ItemsInUse) :
                    /\ FirstMatching(props, ItemsInUse, a)
                    /\ class_res[n].res.val = ItemsInUse[a].name

\* The AND definition did not match, it comes first, and the OR definition
\* over the same two conditions was returned.
C17_Witness ==
    \E n \in 1..Len(class_res) :
        /\ class_res[n].res = Ok("either")
        /\ \E a \in 1..Len(ItemsInUse) :
              /\ ItemsInUse[a].name = "both"
              /\ ~DefinitionMatches(transects[class_res[n].i].properties, ItemsInUse[a].def)

\* C18: when no definition of the rule set matches the transect, and for an
\* empty rule set, classify returns "stable", also when no definition has
\* that name.
C18_NoMatchIsStable ==
    \A n \in 1..Len(class_res) :
        (/\ NoneMatches(transects[class_res[n].i].properties, ItemsInUse)
         /\ ~HasUnknownOperator(ItemsInUse))
            => class_res[n].res = Ok("stable")

\* A rule set of three definitions, none named stable and none matching, was
\* used, and the call returned "stable".
C18_Witness ==
    \E n \in 1..Len(class_res) :
        /\ Len(ItemsInUse) = 3
        /\ \A a \in 1..Len(ItemsInUse) : ItemsInUse[a].name # "stable"
        /\ NoneMatches(transects[class_res[n].i].properties, ItemsInUse)
        /\ ~HasUnknownOperator(ItemsInUse)
        /\ class_res[n].res = Ok("stable")

(***************************************************************************)
(* Claims on the report of analyze_site.                                   *)
(***************************************************************************)
\* The ids of the features of the requested site.
SiteIds ==
    {features[i].properties["id"] : i \in {j \in 1..Len(features) :
                                             features[j].properties["site_id"] = site_id}}

\* The ids of the requested site in ascending order.
SortedSiteIds ==
    [p \in 1..Cardinality(SiteIds) |->
        CHOOSE x \in SiteIds : Cardinality({y \in SiteIds : y < x}) = p - 1]

\* C19: the report of analyze_site is about exactly the features of the
\* requested site, taken in ascending order of id whatever their order in the
\* collection: the count and the transect map cover them and no other, and
\* each zone's start_index..end_index are positions in the sorted sequence,
\* holding the ids that the zone lists.
C19_SiteTransectsSortedById ==
    (Called(report) /\ Returned(report)) =>
        /\ report.val.transect_count = Cardinality(SiteIds)
        /\ DOMAIN report.val.transects = SiteIds
        /\ \A id \in SiteIds : report.val.transects[id].properties["site_id"] = site_id
        /\ \A z \in 1..Len(report.val.zones) :
              LET zone == report.val.zones[z]
              IN  /\ zone.start_index >= 0
                  /\ zone.end_index < Cardinality(SiteIds)
                  /\ zone.transect_ids =
                        [p \in 1..(zone.end_index - zone.start_index + 1) |->
                            SortedSiteIds[zone.start_index + p]]

\* The collection holds features of both sites, those of the requested site
\* not in ascending order of id, and the report has a zone of two transects.
C19_Witness ==
    /\ Called(report) /\ Returned(report)
    /\ \E i \in 1..Len(features) : features[i].properties["site_id"] # site_id
    /\ \E i \in 1..Len(features) : \E j \in 1..Len(features) :
          /\ i < j
          /\ features[i].properties["site_id"] = site_id
          /\ features[j].properties["site_id"] = site_id
          /\ features[i].properties["id"] > features[j].properties["id"]
    /\ \E z \in 1..Len(report.val.zones) : report.val.zones[z].transect_count = 2

\* C20: zone_type_distribution maps each type of an emitted zone to the number
\* of emitted zones of that type; a type without an emitted zone has no entry,
\* and the values add up to zone_count, the length of the zones list.
C20_DistributionCountsZones ==
    (Called(report) /\ Returned(report) /\ "zone_count" \in DOMAIN report.val) =>
        LET zones == report.val.zones
            dist == report.val.zone_type_distribution
            ZonesOf(t) == {z \in 1..Len(zones) : zones[z].zone_type = t}
        IN  /\ report.val.zone_count = Len(zones)
            /\ DOMAIN dist = {zones[z].zone_type : z \in 1..Len(zones)}
            /\ \A t \in DOMAIN dist : dist[t] = Cardinality(ZonesOf(t))
            /\ Cardinality(UNION {ZonesOf(t) : t \in DOMAIN dist}) = report.val.zone_count

\* One zone of two transects was emitted and counted once, and the type of a
\* transect whose run was dropped has no entry.
C20_Witness ==
    /\ Called(report) /\ Returned(report) /\ "zone_count" \in DOMAIN report.val
    /\ report.val.zone_count = 1
    /\ report.val.zones[1].transect_count = 2
    /\ report.val.zone_type_distribution[report.val.zones[1].zone_type] = 1
    /\ \E id \in DOMAIN report.val.transects :
          report.val.transects[id].zone_classification
              \notin DOMAIN report.val.zone_type_distribution

(***************************************************************************)
(* Zone names                                                              *)
(***************************************************************************)
\* The index of a zone as its name carries it: two digits at least.
TwoDigits(n) == (IF n < 10 THEN "0" ELSE "") \o ToString(n)

\* C21: the zones of one segmentation are numbered 1..n in the order in
\* which they were emitted, a dropped run taking no number; the name of the
\* zone with number i is the site id, "_", the zone type, "_zone_" and i
\* padded with zeros to two digits at least; no two zones of one output share
\* a name.
C21_ZoneNames ==
    \A r \in 1..Len(zones_res) :
        Returned(zones_res[r]) =>
            LET zs == zones_res[r].val
            IN  /\ \A i \in 1..Len(zs) :
                      zs[i].zone_name =
                          site_id \o "_" \o zs[i].zone_type \o "_zone_" \o TwoDigits(i)
                /\ \A i \in 1..(Len(zs) - 1) : zs[i].end_index < zs[i + 1].start_index
                /\ \A i, j \in 1..Len(zs) : i # j => zs[i].zone_name # zs[j].zone_name

\* A run between two emitted zones was dropped, and the zone after it has
\* the number 2.
C21_Witness ==
    /\ zones_res # << >>
    /\ Returned(zones_res[1])
    /\ Len(zones_res[1].val) >= 2
    /\ zones_res[1].val[2].start_index > zones_res[1].val[1].end_index + 1
    /\ zones_res[1].val[2].zone_name
           = "aus0001_" \o zones_res[1].val[2].zone_type \o "_zone_02"

(***************************************************************************)
(* Zone aggregates                                                         *)
(***************************************************************************)
\* The transects that a zone holds, by its indices.
Members(z) == SubSeq(transects, z.start_index + 1, z.end_index + 1)

\* The positions of the members where the field is present.
PresentAt(ts, field) ==
    {i \in 1..Len(ts) : Get(ts[i].properties, field, None) # None}

RECURSIVE SumAt(_, _, _)
SumAt(ts, field, at) ==
    IF at = {} THEN 0
    ELSE LET i == CHOOSE i \in at : TRUE
         IN  ts[i].properties[field][1] + SumAt(ts, field, at \ {i})

\* Each averaged field with the key of its aggregate.
AveragedFields ==
    {<< "trend", "mean_trend" >>, << "beach_slope", "avg_beach_slope" >>,
     << "r2_score", "avg_r2" >>, << "rmse", "avg_rmse" >>, << "mae", "avg_mae" >>,
     << "cil", "avg_cil" >>, << "ciu", "avg_ciu" >>,
     << "orientation", "avg_orientation" >>}

\* The aggregate is the mean over the members that have the field, null
\* when none has it.
MeanOfPresent(z, field, key) ==
    LET at == PresentAt(Members(z), field)
    IN  IF at = {} THEN z[key] = None
        ELSE z[key] = Some([sum |-> SumAt(Members(z), field, at),
                            count |-> Cardinality(at)])

\* The extremes of the trend over the members that have one, null when none
\* has it.
ExtremesOfPresent(z) ==
    LET ts == Members(z)
        at == PresentAt(ts, "trend")
    IN  IF at = {} THEN z.max_trend = None /\ z.min_trend = None
        ELSE /\ \E i \in at : z.max_trend = ts[i].properties["trend"]
             /\ \E i \in at : z.min_trend = ts[i].properties["trend"]
             /\ \A i \in at : /\ ts[i].properties["trend"][1] <= z.max_trend[1]
                               /\ ts[i].properties["trend"][1] >= z.min_trend[1]

\* C22: every aggregate of an emitted zone is taken over the members where
\* its own field is present, whatever the other fields of those members are;
\* an aggregate whose field no member has is null, and is never 0.
C22_AggregatesOverPresent ==
    \A r \in 1..Len(zones_res) :
        Returned(zones_res[r]) =>
            \A j \in 1..Len(zones_res[r].val) :
                /\ \A fk \in AveragedFields : MeanOfPresent(zones_res[r].val[j], fk[1], fk[2])
                /\ ExtremesOfPresent(zones_res[r].val[j])

\* A zone of two members at least, none with a trend and not all with a
\* beach slope: the trend aggregates are null, the slope is averaged over
\* the members that have one.
C22_Witness ==
    /\ zones_res # << >>
    /\ Returned(zones_res[1])
    /\ \E j \in 1..Len(zones_res[1].val) :
          LET z == zones_res[1].val[j]
          IN  /\ z.transect_count >= 2
              /\ z.mean_trend = None /\ z.max_trend = None /\ z.min_trend = None
              /\ z.avg_beach_slope # None
              /\ z.avg_beach_slope[1].count < z.transect_count
              /\ z.avg_mae = None

(***************************************************************************)
(* Zone length                                                             *)
(***************************************************************************)
\* The distance between two positions along the shore.
Apart(a, b) == IF a >= b THEN a - b ELSE b - a

\* The along_dist of the member at position i of a zone.
AlongDist(z, i) == Members(z)[i].properties["along_dist"]

\* The description of a zone of the built-in types no_data and stable whose
\* length in km prints as the given text.
DefaultDescription(zone_type, km) ==
    IF zone_type = "no_data"
    THEN "No data zone spanning " \o km
         \o "km where insufficient observations prevent trend analysis."
    ELSE "Stable shoreline segment extending " \o km
         \o "km showing minimal change over time. This area exhibits natural equilibrium."

\* C23: the length of an emitted zone is the distance between the along_dist
\* of its first and of its last member, whatever lies between them: it is
\* never negative and is 0 for a zone of one transect; from 100 to 340 it is
\* 240, which the built-in descriptions print as 0.2 km.
C23_LengthFirstToLast ==
    \A r \in 1..Len(zones_res) :
        Returned(zones_res[r]) =>
            \A j \in 1..Len(zones_res[r].val) :
                LET z == zones_res[r].val[j]
                IN  /\ z.length_meters = Apart(AlongDist(z, 1), AlongDist(z, z.transect_count))
                    /\ z.length_meters >= 0
                    /\ z.transect_count = 1 => z.length_meters = 0
                    /\ (AlongDist(z, 1) = 100 /\ AlongDist(z, z.transect_count) = 340) =>
                           /\ z.length_meters = 240
                           /\ (zone_definitions = NoDefinitions
                                /\ z.zone_type \in {"no_data", "stable"}) =>
                                  z.narrative_description
                                      = DefaultDescription(z.zone_type, "0.2")

\* A stable zone of three members under the built-in rules, the first at 100,
\* the second and the last at 340: 240 m, printed as 0.2 km.
C23_Witness ==
    /\ zones_res # << >>
    /\ Returned(zones_res[1])
    /\ zone_definitions = NoDefinitions
    /\ \E j \in 1..Len(zones_res[1].val) :
          LET z == zones_res[1].val[j]
          IN  /\ z.transect_count = 3
              /\ z.zone_type = "stable"
              /\ AlongDist(z, 1) = 100 /\ AlongDist(z, 2) = 340 /\ AlongDist(z, 3) = 340
              /\ z.length_meters = 240
              /\ z.narrative_description = DefaultDescription("stable", "0.2")

(***************************************************************************)
(* Zone indices                                                            *)
(***************************************************************************)
\* The id of the transect at a 0-based position of the input.
IdAt(position) == transects[position + 1].properties["id"]

\* C24: the indices of an emitted zone are 0-based positions of the input
\* sequence: the end index is the start index plus the number of members
\* less one, transect_ids lists the ids of the positions from the start
\* index to the end index in order, and start_transect_id and
\* end_transect_id are the ids at the two indices.
C24_IndicesArePositions ==
    \A r \in 1..Len(zones_res) :
        Returned(zones_res[r]) =>
            \A j \in 1..Len(zones_res[r].val) :
                LET z == zones_res[r].val[j]
                IN  /\ z.start_index >= 0
                    /\ z.end_index = z.start_index + z.transect_count - 1
                    /\ z.end_index < Len(transects)
                    /\ z.transect_ids
                          = [p \in 1..z.transect_count |-> IdAt(z.start_index + p - 1)]
                    /\ z.start_transect_id = IdAt(z.start_index)
                    /\ z.end_transect_id = IdAt(z.end_index)

\* A zone of two members that starts at position 0 and a zone after it,
\* with ids that are not the positions.
C24_Witness ==
    /\ zones_res # << >>
    /\ Returned(zones_res[1])
    /\ Len(zones_res[1].val) = 2
    /\ zones_res[1].val[1].start_index = 0
    /\ zones_res[1].val[1].transect_ids = << 11, 12 >>
    /\ zones_res[1].val[2].start_index = 2
    /\ zones_res[1].val[2].end_index = 2
    /\ zones_res[1].val[2].start_transect_id = 13
    /\ zones_res[1].val[2].end_transect_id = 13

(***************************************************************************)
(* Equal priorities                                                        *)
(***************************************************************************)
\* Items a and b both match, a is enumerated before b, and they have the
\* same priority, given or left out.
TiedMatches(props, items, a, b) ==
    /\ a < b
    /\ Priority(items[a]) = Priority(items[b])
    /\ DefinitionMatches(props, items[a].def)
    /\ DefinitionMatches(props, items[b].def)

\* No matching item has a smaller priority than item a, and none with the
\* priority of a is enumerated before it.
NoMatchBefore(props, items, a) ==
    \A c \in 1..Len(items) :
        DefinitionMatches(props, items[c].def) =>
            /\ Priority(items[c]) >= Priority(items[a])
            /\ Priority(items[c]) = Priority(items[a]) => c >= a

\* C25: of two matching definitions with the same priority, or both without
\* one (999 for each), classify returns the one enumerated first, when no
\* matching definition comes before it.
C25_TiesInEnumerationOrder ==
    \A n \in 1..Len(class_res) :
        LET props == transects[class_res[n].i].properties
        IN  Returned(class_res[n].res) =>
                \A a, b \in 1..Len(ItemsInUse) :
                    (TiedMatches(props, ItemsInUse, a, b)
                     /\ NoMatchBefore(props, ItemsInUse, a)) =>
                        /\ class_res[n].res.val = ItemsInUse[a].name
                        /\ class_res[n].res.val # ItemsInUse[b].name

\* Two matching definitions without a priority: the catch-all is enumerated
\* first and is returned, the definition with a condition after it is not.
C25_Witness ==
    \E n \in 1..Len(class_res) : \E a, b \in 1..Len(ItemsInUse) :
        /\ class_res[n].res = Ok("always")
        /\ ItemsInUse[a].name = "always" /\ ItemsInUse[b].name = "custom"
        /\ "priority" \notin DOMAIN ItemsInUse[a].def
        /\ "priority" \notin DOMAIN ItemsInUse[b].def
        /\ TiedMatches(transects[class_res[n].i].properties, ItemsInUse, a, b)

(***************************************************************************)
(* Rendering leaves the summary alone                                      *)
(***************************************************************************)
\* The summary without its description.
BeforeRendering(z) == [key \in DOMAIN z \ {"narrative_description"} |-> z[key]]

\* Zone number j as it was before its description was rendered, and every
\* aggregate without a present value still null.
KeptByRendering(z, j) ==
    /\ BeforeRendering(z)
          = zone_fields(z.zone_type, Members(z), z.start_index, j,
                        present_values(Members(z), "trend"))
    /\ \A fk \in AveragedFields :
          PresentAt(Members(z), fk[1]) = {} => z[fk[2]] = None
    /\ PresentAt(Members(z), "trend") = {} => (z.max_trend = None /\ z.min_trend = None)

\* C26: the 0 that stands for an absent aggregate exists in the template
\* variables only: once the description is rendered, every absent aggregate
\* is still null in the zone summary and in the report of the site, and no
\* other field of the summary differs from what it was before rendering.
C26_RenderingKeepsSummary ==
    /\ \A r \in 1..Len(zones_res) :
          Returned(zones_res[r]) =>
              \A j \in 1..Len(zones_res[r].val) : KeptByRendering(zones_res[r].val[j], j)
    /\ Returned(report) =>
          \A j \in 1..Len(report.val.zones) : KeptByRendering(report.val.zones[j], j)

\* A zone without trend and without rmse whose description prints both as
\* 0, in the segmentation and in the report: both are null in the summary.
C26_Witness ==
    /\ zones_res # << >>
    /\ Returned(zones_res[1])
    /\ Returned(report)
    /\ Len(zones_res[1].val) = 1
    /\ report.val.zones = zones_res[1].val
    /\ report.val.zones[1].narrative_description = "Gap of 0.0km, trend 0.00, rmse 0."
    /\ report.val.zones[1].mean_trend = None
    /\ report.val.zones[1].avg_rmse = None

(***************************************************************************)
(* The template of a zone type without a definition                        *)
(***************************************************************************)
\* The zone's type has no definition in the rule set in use.
Undefined(z) == \A a \in 1..Len(ItemsInUse) : ItemsInUse[a].name # z.zone_type

\* The zone's length in km.
LengthKm(z) == FloatValue(z.length_meters, 1000)

\* The description is what the built-in table's template of the zone's type
\* gives.
FromBuiltInTable(z) ==
    \E a \in 1..Len(get_default_zone_definitions) :
        /\ get_default_zone_definitions[a].name = z.zone_type
        /\ Ok(z.narrative_description)
              = str_format(get_default_zone_definitions[a].def["description_template"],
                           template_vars(z), 1)

\* C27 as stated: the description of a zone whose type the rule set in use
\* does not define is "Unclassified zone spanning {length_km}km." with the
\* length in km put in as it is.
C27_GenericTemplateUnformatted ==
    \A r \in 1..Len(zones_res) :
        Returned(zones_res[r]) =>
            \A j \in 1..Len(zones_res[r].val) :
                LET z == zones_res[r].val[j]
                IN  Undefined(z) =>
                        z.narrative_description
                            = "Unclassified zone spanning " \o float_str(LengthKm(z)) \o "km."

\* C27: the description of a zone whose type the rule set in use does not
\* define is "Unclassified zone spanning {length_km:.1f}km.", the length in
\* km with one decimal; when no rule set was supplied, the description comes
\* from the template that the built-in table has for the zone's type.
C27_GenericTemplateOneDecimal ==
    \A r \in 1..Len(zones_res) :
        Returned(zones_res[r]) =>
            \A j \in 1..Len(zones_res[r].val) :
                LET z == zones_res[r].val[j]
                IN  /\ Undefined(z) =>
                           z.narrative_description
                               = "Unclassified zone spanning "
                                 \o format_fixed(LengthKm(z), 1) \o "km."
                    /\ zone_definitions = NoDefinitions => FromBuiltInTable(z)

\* A zone of the fallback type stable, 240 m long, under a custom rule set
\* that does not define stable.
C27_Witness ==
    /\ zones_res # << >>
    /\ Returned(zones_res[1])
    /\ zone_definitions = Definitions(SummaryRules)
    /\ \E j \in 1..Len(zones_res[1].val) :
          /\ zones_res[1].val[j].zone_type = "stable"
          /\ Undefined(zones_res[1].val[j])
          /\ zones_res[1].val[j].length_meters = 240
          /\ zones_res[1].val[j].narrative_description
                = "Unclassified zone spanning 0.2km."

(***************************************************************************)
(* The built-in rules on a transect without r2_score and rmse              *)
(***************************************************************************)
\* C28: under the built-in rules a transect whose trend is present and lies
\* from -0.3 to 0.3, so that no erosion or accretion rule matches it, and
\* whose r2_score and rmse are both absent, is classified high_uncertainty
\* (never steep_beach, low_energy or stable), whatever its beach_slope.
C28_NoFitIsHighUncertainty ==
    \A n \in 1..Len(class_res) :
        (/\ zone_definitions.is_none
         /\ FieldOf(class_res[n], "trend") # None
         /\ FieldOf(class_res[n], "trend")[1] >= -30
         /\ FieldOf(class_res[n], "trend")[1] <= 30
         /\ FieldOf(class_res[n], "r2_score") = None
         /\ FieldOf(class_res[n], "rmse") = None)
            => class_res[n].res = Ok("high_uncertainty")

\* A transect with the trend 0.3 and a steep slope, its r2_score null and
\* its rmse key missing, was classified high_uncertainty.
C28_Witness ==
    \E n \in 1..Len(class_res) :
        /\ zone_definitions.is_none
        /\ FieldOf(class_res[n], "trend") = Some(30)
        /\ FieldOf(class_res[n], "beach_slope") = Some(9)
        /\ "r2_score" \in DOMAIN transects[class_res[n].i].properties
        /\ FieldOf(class_res[n], "r2_score") = None
        /\ "rmse" \notin DOMAIN transects[class_res[n].i].properties
        /\ class_res[n].res = Ok("high_uncertainty")

(***************************************************************************)
(* Definitions behind a catch-all                                          *)
(***************************************************************************)
\* Item a sorts after a definition without conditions.
BehindCatchAll(items, a) ==
    \E b \in 1..Len(items) :
        /\ b # a
        /\ Get(items[b].def, "conditions", << >>) = << >>
        /\ Ahead(items, b, a)

DefaultNames ==
    {"no_data", "rapid_erosion", "moderate_erosion", "rapid_accretion",
     "moderate_accretion", "high_uncertainty", "steep_beach", "low_energy", "stable"}

\* C29: classify never returns a definition that sorts after a definition
\* without conditions; under the built-in rule set, whose catch-all stable
\* has the largest priority number of its nine definitions, every transect
\* gets the name of a definition that matches it, one of the nine, so that
\* the fallback for no match is never taken.
C29_CatchAllShadowsTheRest ==
    \A n \in 1..Len(class_res) :
        LET props == transects[class_res[n].i].properties
        IN  /\ Returned(class_res[n].res) =>
                  \A a \in 1..Len(ItemsInUse) :
                      BehindCatchAll(ItemsInUse, a) =>
                          class_res[n].res.val # ItemsInUse[a].name
            /\ zone_definitions.is_none =>
                  /\ Len(get_default_zone_definitions) = 9
                  /\ \A a \in 1..8 : Priority(get_default_zone_definitions[a])
                                         < Priority(get_default_zone_definitions[9])
                  /\ get_default_zone_definitions[9].name = "stable"
                  /\ Returned(class_res[n].res)
                  /\ class_res[n].res.val \in DefaultNames
                  /\ ~NoneMatches(props, get_default_zone_definitions)
                  /\ \E a \in 1..9 :
                        /\ FirstMatching(props, get_default_zone_definitions, a)
                        /\ class_res[n].res.val = get_default_zone_definitions[a].name

\* A steep transect with a good fit and no trend to speak of, under rules
\* whose catch-all has priority 5: steep_beach matches it and sorts after
\* the catch-all, and stable is returned.
C29_Witness ==
    \E n \in 1..Len(class_res) : \E a \in 1..Len(ItemsInUse) :
        /\ ~zone_definitions.is_none
        /\ ItemsInUse[a].name = "steep_beach"
        /\ BehindCatchAll(ItemsInUse, a)
        /\ DefinitionMatches(transects[class_res[n].i].properties, ItemsInUse[a].def)
        /\ class_res[n].res = Ok("stable")

(***************************************************************************)
(* A logic that is neither AND nor OR                                      *)
(***************************************************************************)
\* The definition has conditions and a logic other than AND and OR.
UnknownLogic(item) ==
    /\ Get(item.def, "conditions", << >>) # << >>
    /\ Get(item.def, "logic", "AND") \notin {"AND", "OR"}

KnownLogic(item) == ~UnknownLogic(item)

\* C30: a definition with conditions whose logic is neither AND nor OR is
\* passed over: classify never returns its name, and its outcome, a name or
\* an error, is the one it has on the rule set without that definition; no
\* condition of the definition is evaluated, so that an unknown operator in
\* it raises nothing.
C30_UnknownLogicNeverMatches ==
    \A n \in 1..Len(class_res) :
        /\ class_res[n].res
              = classify_transect_zone_custom(transects[class_res[n].i],
                                              SelectSeq(ItemsInUse, KnownLogic))
        /\ Returned(class_res[n].res) =>
              \A a \in 1..Len(ItemsInUse) :
                  UnknownLogic(ItemsInUse[a]) => class_res[n].res.val # ItemsInUse[a].name

\* The definition with the smallest priority has the logic "and" and one
\* condition with an unknown operator, the trend is present, and classify
\* returned the catch-all after it.
C30_Witness ==
    \E n \in 1..Len(class_res) :
        /\ Len(ItemsInUse) = 2
        /\ UnknownLogic(ItemsInUse[2])
        /\ ItemsInUse[2].name = "custom"
        /\ Priority(ItemsInUse[2]) < Priority(ItemsInUse[1])
        /\ condition["operator"] = "~="
        /\ FieldOf(class_res[n], "trend") = Some(0)
        /\ class_res[n].res = Ok("other")

====
